---- MODULE Spec2Model ----
(***************************************************************************)
(* Model of renomeador_chandra: field extraction from document text        *)
(* (parsing.py), filename assembly (rules.py), the confidence gate and the *)
(* batch loop (cli.py) and the collision-safe renamer (renamer.py).        *)
(*                                                                         *)
(* A Python str is a sequence of characters; a character is a one-symbol   *)
(* string ("A", "7", "/"), a precomposed accented letter is named by its   *)
(* code point ("U+00FA").  An Optional[str] is <<>> for None and <<s>> for *)
(* the str s.  A confidence is a whole number of hundredths (0.95 = 95).   *)
(***************************************************************************)
EXTENDS Integers, Sequences, FiniteSets, TLC

VARIABLES
    text,       \* raw text of the document handed to the extractor
    hint,       \* context_hint / config.context
    parsed,     \* the ParsedFields of the last parse
    result,     \* value returned (or error raised) by the last call
    pc,         \* which operation acted last
    fs,         \* the filesystem: each path that exists, and the file it holds
    files,      \* cli.process: the up-front file list still to be handled
    results,    \* cli.process: the list of RenameResult
    config      \* cli.process: the AppConfig of the run

vars == <<text, hint, parsed, result, pc, fs, files, results, config>>

----------------------------------------------------------------------------
(* Characters and str methods                                              *)

Digits == {"0", "1", "2", "3", "4", "5", "6", "7", "8", "9"}

UpperAZ == {"A", "B", "C", "D", "E", "F", "G", "H", "I", "J", "K", "L", "M",
            "N", "O", "P", "Q", "R", "S", "T", "U", "V", "W", "X", "Y", "Z"}

LowerAZ == {"a", "b", "c", "d", "e", "f", "g", "h", "i", "j", "k", "l", "m",
            "n", "o", "p", "q", "r", "s", "t", "u", "v", "w", "x", "y", "z"}

\* precomposed accented letters: u-acute, i-acute, U-acute, I-acute
Accented == {"U+00FA", "U+00ED", "U+00DA", "U+00CD"}

\* U+0301 COMBINING ACUTE ACCENT, U+0308 COMBINING DIAERESIS
CombiningMarks == {"U+0301", "U+0308"}

Whitespace == {" ", "\n", "\t"}

\* str.upper() on one character
CharUpper(c) ==
    CASE c = "a" -> "A" [] c = "b" -> "B" [] c = "c" -> "C" [] c = "d" -> "D"
      [] c = "e" -> "E" [] c = "f" -> "F" [] c = "g" -> "G" [] c = "h" -> "H"
      [] c = "i" -> "I" [] c = "j" -> "J" [] c = "k" -> "K" [] c = "l" -> "L"
      [] c = "m" -> "M" [] c = "n" -> "N" [] c = "o" -> "O" [] c = "p" -> "P"
      [] c = "q" -> "Q" [] c = "r" -> "R" [] c = "s" -> "S" [] c = "t" -> "T"
      [] c = "u" -> "U" [] c = "v" -> "V" [] c = "w" -> "W" [] c = "x" -> "X"
      [] c = "y" -> "Y" [] c = "z" -> "Z"
      [] c = "U+00FA" -> "U+00DA" [] c = "U+00ED" -> "U+00CD"
      [] OTHER -> c

\* unicodedata.normalize("NFKD", c) on one character; U+00A8 DIAERESIS
\* decomposes into a space and the combining diaeresis
NFKD(c) ==
    CASE c = "U+00FA" -> <<"u", "U+0301">>
      [] c = "U+00ED" -> <<"i", "U+0301">>
      [] c = "U+00DA" -> <<"U", "U+0301">>
      [] c = "U+00CD" -> <<"I", "U+0301">>
      [] c = "U+00A8" -> <<" ", "U+0308">>
      [] OTHER -> <<c>>

\* unicodedata.combining(c) != 0
combining(c) == c \in CombiningMarks

\* str.isalnum() on one character
isalnum(c) == c \in Digits \cup UpperAZ \cup LowerAZ \cup Accented

\* the regex classes \d, \w, \s and [A-Z\s]
IsDigit(c) == c \in Digits
IsWord(c) == isalnum(c) \/ c = "_"
IsSpace(c) == c \in Whitespace
UpperOrSpace == UpperAZ \cup Whitespace

\* str.upper()
upper(s) == [i \in 1..Len(s) |-> CharUpper(s[i])]

\* s[i:j] with 1-based inclusive bounds; empty when i > j
Slice(s, i, j) == IF i > j THEN <<>> ELSE SubSeq(s, i, j)

RECURSIVE Flatten(_)
\* "".join(seqs), halving the list
Flatten(seqs) ==
    IF seqs = <<>> THEN <<>>
    ELSE IF Len(seqs) = 1 THEN seqs[1]
    ELSE Flatten(SubSeq(seqs, 1, Len(seqs) \div 2))
         \o Flatten(SubSeq(seqs, (Len(seqs) \div 2) + 1, Len(seqs)))

RECURSIVE join(_, _)
\* sep.join(parts)
join(sep, parts) ==
    IF parts = <<>> THEN <<>>
    ELSE IF Len(parts) = 1 THEN parts[1]
    ELSE parts[1] \o sep \o join(sep, Tail(parts))

\* s starts with lit at index i
StartsAt(s, i, lit) ==
    /\ i >= 1
    /\ i + Len(lit) - 1 <= Len(s)
    /\ \A k \in 1..Len(lit) : s[i + k - 1] = lit[k]

\* the set of indices where lit occurs in s
Occurrences(s, lit) == {i \in 1..(Len(s) + 1) : StartsAt(s, i, lit)}

\* the element of a one-element set; The({e : x \in {v}}) is e with x standing
\* for the value of v, computed once
The(S) == CHOOSE x \in S : TRUE

\* least element of a non-empty set of integers
Min(S) == CHOOSE m \in S : \A n \in S : m <= n

\* str.find(lit): index of the first occurrence, 0 when absent (Python: -1)
find(s, lit) == IF Occurrences(s, lit) = {} THEN 0 ELSE Min(Occurrences(s, lit))

\* lit in s
Contains(s, lit) == \E i \in 1..Len(s) : StartsAt(s, i, lit)

\* the regex assertion \b between s[i-1] and s[i], for i in 1..Len(s)+1
WordBoundary(s, i) ==
    LET before == i - 1 >= 1 /\ i - 1 <= Len(s) /\ IsWord(s[i - 1])
        after  == i >= 1 /\ i <= Len(s) /\ IsWord(s[i])
    IN  before # after

\* re.search(rf"\b{lit}\b", s) finds a match
WholeWord(s, lit) ==
    \E i \in 1..Len(s) :
        StartsAt(s, i, lit) /\ WordBoundary(s, i) /\ WordBoundary(s, i + Len(lit))

RECURSIVE RunLength(_, _, _)
\* length of the longest run of characters of the class chars starting at s[i]
RunLength(s, i, chars) ==
    IF i > Len(s) \/ s[i] \notin chars THEN 0 ELSE 1 + RunLength(s, i + 1, chars)

RECURSIVE TokenLength(_, _)
\* length of the longest run of non-whitespace characters starting at s[i]
TokenLength(s, i) ==
    IF i > Len(s) \/ IsSpace(s[i]) THEN 0 ELSE 1 + TokenLength(s, i + 1)

RECURSIVE lstrip(_, _)
\* str.lstrip(chars)
lstrip(s, chars) ==
    IF s # <<>> /\ Head(s) \in chars THEN lstrip(Tail(s), chars) ELSE s

RECURSIVE rstrip(_, _)
\* str.rstrip(chars)
rstrip(s, chars) ==
    IF s # <<>> /\ s[Len(s)] \in chars
    THEN rstrip(Slice(s, 1, Len(s) - 1), chars) ELSE s

\* str.strip()
strip(s) == rstrip(lstrip(s, Whitespace), Whitespace)

RECURSIVE split(_)
\* str.split(): the maximal runs of non-whitespace characters
split(s) ==
    LET t == lstrip(s, Whitespace)
        n == TokenLength(t, 1)
    IN  IF t = <<>> THEN <<>>
        ELSE <<Slice(t, 1, n)>> \o split(Slice(t, n + 1, Len(t)))

IsNotSpaceChar(c) == c # " "

\* str.replace(" ", "")
RemoveSpaces(s) == SelectSeq(s, IsNotSpaceChar)

IsNotCombining(c) == ~combining(c)

IsDigitChar(c) == IsDigit(c)

----------------------------------------------------------------------------
(* utils.py                                                                *)

\* NORMALIZE_WHITESPACE_RE.sub(" ", s): every run of whitespace becomes " ".
\* A character is kept unless it is whitespace that follows whitespace.
CollapseWhitespace(s) ==
    LET kept == SelectSeq([i \in 1..Len(s) |-> i],
                          LAMBDA i : ~IsSpace(s[i]) \/ i = 1 \/ ~IsSpace(s[i - 1]))
    IN  [k \in 1..Len(kept) |-> IF IsSpace(s[kept[k]]) THEN " " ELSE s[kept[k]]]

\* mutant of normalize_text: the whitespace is stripped and collapsed before
\* the text is decomposed
normalize_text_strip_first(value) ==
    LET collapsed  == CollapseWhitespace(strip(value))
        decomposed == Flatten([i \in 1..Len(collapsed) |-> NFKD(collapsed[i])])
    IN  SelectSeq(decomposed, IsNotCombining)

normalize_text(value) ==
    LET decomposed == Flatten([i \in 1..Len(value) |-> NFKD(value[i])])
        stripped   == SelectSeq(decomposed, IsNotCombining)
    IN  CollapseWhitespace(strip(stripped))

slugify_safe(value) ==
    LET normal == normalize_text(value)
        IsAlnumChar(c) == isalnum(c)
    IN  upper(SelectSeq(normal, IsAlnumChar))

----------------------------------------------------------------------------
(* parsing.py: vocabularies                                                *)

CONTRACT_TYPES == {
    <<"C", "C", "V">>,
    <<"C", "P", "A">>,
    <<"C", "P", "R">>,
    <<"C", "C", "O">>,
    <<"C", "C", "E">>,
    <<"C", "D", "C">>}

DOCUMENT_TITLES == {
    <<"P", "R", "O", "M">>,
    <<"C", "O", "N", "T", "R">>,
    <<"A", "D", "T">>,
    <<"1", "A", "D", "T">>,
    <<"2", "A", "D", "T">>,
    <<"3", "A", "D", "T">>,
    <<"C", "M", "D", "T">>,
    <<"T", "I", "P">>,
    <<"N", "O", "T">>,
    <<"R", "A", "S">>,
    <<"F", "A", "S">>,
    <<"C", "A", "N", "I">>,
    <<"T", "A", "Q">>,
    <<"T", "A", "P", "I">>}

ENVIRONMENTAL_DOCS == {
    <<"M", "A", "T">>,
    <<"C", "A", "R", "F">>,
    <<"C", "A", "R", "E">>,
    <<"C", "T", "F">>,
    <<"I", "T", "R">>,
    <<"C", "C", "I", "R">>,
    <<"I", "E">>,
    <<"C", "N", "D">>,
    <<"A", "D", "A">>,
    <<"C", "N", "E">>,
    <<"S", "I", "S", "L", "A">>,
    <<"I", "C", "R">>,
    <<"I", "P", "R">>,
    <<"D", "A", "R", "F">>}

DOCUMENTO_PF_PJ == {
    <<"R", "G">>,
    <<"C", "P", "F">>,
    <<"C", "N", "P", "J">>,
    <<"C", "N", "H">>,
    <<"C", "E", "R", "T", "I", "D", "A", "O">>,
    <<"C", "E", "R", "T", "C", "A", "S", "A", "M", "E", "N", "T", "O">>,
    <<"C", "E", "R", "T", "N", "A", "S", "C">>}

KEYWORDS_FUNDOS == {
    <<"F", "U", "N", "D", "O">>,
    <<"F", "I", "P">>,
    <<"F", "I", "A", "G", "R", "O">>,
    <<"S", "P", "E">>,
    <<"C", "O", "T", "I", "S", "T", "A">>}

KEYWORDS_MERCADO == {
    <<"P", "A", "R", "C", "E", "I", "R", "O">>,
    <<"F", "A", "Z", "E", "N", "D", "A">>,
    <<"P", "R", "O", "P", "R", "I", "E", "D", "A", "D", "E">>}

STOP_WORDS == {
    <<"P", "A", "R", "C", "E", "I", "R", "O">>,
    <<"F", "A", "Z", "E", "N", "D", "A">>,
    <<"F", "U", "N", "D", "O">>,
    <<"S", "P", "E">>,
    <<"C", "O", "N", "T", "R", "A", "T", "O">>,
    <<"N", "U", "M", "E", "R", "O">>,
    <<"T", "I", "P", "O">>,
    <<"T", "I", "T", "U", "L", "O">>,
    <<"D", "O", "C", "U", "M", "E", "N", "T", "O">>,
    <<"E">>,
    <<"D", "E">>,
    <<"D", "A">>,
    <<"D", "O">>,
    <<"P", "A", "R", "A">>}

\* the words the code names in string literals
W_CPA == <<"C", "P", "A">>
W_CPR == <<"C", "P", "R">>
W_FAZENDA == <<"F", "A", "Z", "E", "N", "D", "A">>
W_PARCEIRO == <<"P", "A", "R", "C", "E", "I", "R", "O">>
W_FUNDO == <<"F", "U", "N", "D", "O">>
W_SPE == <<"S", "P", "E">>
W_PROPRIETARIO == <<"P", "R", "O", "P", "R", "I", "E", "T", "A", "R", "I", "O">>
W_CPF == <<"C", "P", "F">>
W_DE == <<"D", "E">>

----------------------------------------------------------------------------
(* parsing.py: ParsedFields                                                *)

\* Optional[str]: None, or a str
None == <<>>
Str(s) == <<s>>

\* Python truthiness of an Optional[str]: neither None nor ""
Truthy(v) == v # None /\ v[1] # <<>>

FieldNames == <<"data_assinatura", "numero_contrato", "tipo_contrato",
                "titulo_documento", "contexto", "fazenda", "parceiro", "fundo",
                "spe", "ano_emissao", "nome_documento", "proprietario",
                "documento_pf_pj">>

Fields == {FieldNames[i] : i \in 1..Len(FieldNames)}

\* ParsedFields(): every field None, confidences = {}.  writes is the history
\* of the set_value calls that wrote a field of this object: the field and
\* the confidence, in the order of the calls
ParsedFields ==
    [data_assinatura |-> None, numero_contrato |-> None, tipo_contrato |-> None,
     titulo_documento |-> None, contexto |-> None, fazenda |-> None,
     parceiro |-> None, fundo |-> None, spe |-> None, ano_emissao |-> None,
     nome_documento |-> None, proprietario |-> None, documento_pf_pj |-> None,
     confidences |-> <<>>, writes |-> <<>>]

\* mutant of set_value: the value is stored whether or not it is truthy
set_value_always(p, field, value, confidence) ==
    [p EXCEPT ![field] = value,
              !.confidences = (field :> confidence) @@ @,
              !.writes = Append(@, <<field, confidence>>)]

set_value(p, field, value, confidence) ==
    IF Truthy(value)
    THEN [p EXCEPT ![field] = value,
                   !.confidences = (field :> confidence) @@ @,
                   !.writes = Append(@, <<field, confidence>>)]
    ELSE p

get_confidence(p, field) ==
    IF field \in DOMAIN p.confidences THEN p.confidences[field] ELSE 0

----------------------------------------------------------------------------
(* parsing.py: extractors.  Each returns <<value, confidence>>.            *)

ContextWord(c) ==
    CASE c = "fundos" -> <<"f", "u", "n", "d", "o", "s">>
      [] c = "mercado" -> <<"m", "e", "r", "c", "a", "d", "o">>
      [] c = "auto" -> <<"a", "u", "t", "o">>

\* mutant of _detect_context: the market keywords are looked for first
_detect_context_market_first(text_upper) ==
    IF \E keyword \in KEYWORDS_MERCADO : Contains(text_upper, keyword)
    THEN "mercado"
    ELSE IF \E keyword \in KEYWORDS_FUNDOS : Contains(text_upper, keyword)
    THEN "fundos"
    ELSE "auto"

\* mutant of _detect_context: the entity anchors FUNDO, SPE, PARCEIRO and
\* FAZENDA are left out of the keywords looked for
_detect_context_without_anchors(text_upper) ==
    IF \E keyword \in KEYWORDS_FUNDOS \ {W_FUNDO, W_SPE} : Contains(text_upper, keyword)
    THEN "fundos"
    ELSE IF \E keyword \in KEYWORDS_MERCADO \ {W_PARCEIRO, W_FAZENDA} : Contains(text_upper, keyword)
    THEN "mercado"
    ELSE "auto"

_detect_context(text_upper) ==
    IF \E keyword \in KEYWORDS_FUNDOS : Contains(text_upper, keyword)
    THEN "fundos"
    ELSE IF \E keyword \in KEYWORDS_MERCADO : Contains(text_upper, keyword)
    THEN "mercado"
    ELSE "auto"

DateSeparators == {"/", "-", "."}

\* DATE_PATTERN matches at index i: (\d{2})[\/\-.](\d{2})[\/\-.](\d{4})
DATE_PATTERN(s, i) ==
    /\ i >= 1
    /\ i + 9 <= Len(s)
    /\ \A k \in {0, 1, 3, 4, 6, 7, 8, 9} : IsDigit(s[i + k])
    /\ s[i + 2] \in DateSeparators
    /\ s[i + 5] \in DateSeparators

\* YEAR_PATTERN matches at index i: \b(20\d{2})\b
YEAR_PATTERN(s, i) ==
    /\ WordBoundary(s, i)
    /\ StartsAt(s, i, <<"2", "0">>)
    /\ i + 3 <= Len(s)
    /\ IsDigit(s[i + 2])
    /\ IsDigit(s[i + 3])
    /\ WordBoundary(s, i + 4)

\* mutant of YEAR_PATTERN_search: the last match is taken instead of the first
YEAR_PATTERN_search_last(s) ==
    LET ms == {i \in 1..Len(s) : YEAR_PATTERN(s, i)}
        last == CHOOSE m \in ms : \A n \in ms : n <= m
    IN  IF ms = {} THEN None ELSE Str(Slice(s, last, last + 3))

\* YEAR_PATTERN.search(s): <<>> when there is no match, else <<group(1)>>
YEAR_PATTERN_search(s) ==
    LET ms == {i \in 1..Len(s) : YEAR_PATTERN(s, i)}
    IN  IF ms = {} THEN None ELSE Str(Slice(s, Min(ms), Min(ms) + 3))

\* mutant of _extract_date: day and month are emitted in the order matched
_extract_date_day_first(s) ==
    LET ms == {i \in 1..Len(s) : DATE_PATTERN(s, i)}
        i == Min(ms)
        day == Slice(s, i, i + 1)
        month == Slice(s, i + 3, i + 4)
        year == Slice(s, i + 6, i + 9)
        match_year == YEAR_PATTERN_search(s)
    IN  IF ms # {} THEN <<Str(year \o day \o month), 95>>
        ELSE IF match_year # None THEN <<match_year, 70>>
        ELSE <<None, 0>>

_extract_date(s) ==
    LET ms == {i \in 1..Len(s) : DATE_PATTERN(s, i)}
        i == Min(ms)
        day == Slice(s, i, i + 1)
        month == Slice(s, i + 3, i + 4)
        year == Slice(s, i + 6, i + 9)
        match_year == YEAR_PATTERN_search(s)
    IN  IF ms # {} THEN <<Str(year \o month \o day), 95>>
        ELSE IF match_year # None THEN <<match_year, 70>>
        ELSE <<None, 0>>

\* CONTRACT_NUMBER_PATTERN at index i: \b(\d{5,8})(?:[\/-]\d+)?\b
\* The set of <<n, m>> for which the pattern matches with n digits in the
\* group and m digits after the separator (m = 0: the optional part is absent).
CONTRACT_NUMBER_PATTERN(s, i) ==
    LET run == RunLength(s, i, Digits)
    IN  IF ~WordBoundary(s, i) \/ run < 5 THEN {}
        ELSE {nm \in (5..8) \X (0..RunLength(s, i + run + 1, Digits)) :
                LET n == nm[1]
                    m == nm[2]
                IN  /\ n <= run
                    /\ IF m = 0 THEN WordBoundary(s, i + n)
                       ELSE /\ i + n <= Len(s)
                            /\ s[i + n] \in {"/", "-"}
                            /\ m <= RunLength(s, i + n + 1, Digits)
                            /\ WordBoundary(s, i + n + 1 + m)}

\* the match the regex engine returns at index i: both quantifiers are
\* greedy, so the longest group first and then the longest optional part
CONTRACT_NUMBER_group0(s, i) ==
    LET cands == CONTRACT_NUMBER_PATTERN(s, i)
        best == CHOOSE nm \in cands :
                    \A o \in cands :
                        o[1] < nm[1] \/ (o[1] = nm[1] /\ o[2] <= nm[2])
        len == IF best[2] = 0 THEN best[1] ELSE best[1] + 1 + best[2]
    IN  Slice(s, i, i + len - 1)

_extract_contract_number(s) ==
    LET ms == {i \in 1..Len(s) : CONTRACT_NUMBER_PATTERN(s, i) # {}}
        number == SelectSeq(CONTRACT_NUMBER_group0(s, Min(ms)), IsDigitChar)
    IN  IF ms # {} THEN <<Str(number), 90>> ELSE <<None, 0>>

\* CONTRACT_TYPES is a Python set: the loop visits the codes in an order the
\* interpreter's string hashing decides, so any code that matches as a whole
\* word may be the one returned.  The set of values the call can return.
_extract_contract_type(text_upper) ==
    LET ms == {t \in CONTRACT_TYPES : WholeWord(text_upper, t)}
    IN  IF ms = {} THEN {<<None, 0>>}
        ELSE {IF t = W_CPA /\ Contains(text_upper, W_CPR)
              THEN <<Str(W_CPA), 85>>
              ELSE <<Str(t), 85>> : t \in ms}

\* sorted(DOCUMENT_TITLES, key=len, reverse=True) is stable over the set's
\* iteration order: the first match is any matching title of maximal length.
_extract_title(text_upper) ==
    LET ms == {t \in DOCUMENT_TITLES : WholeWord(text_upper, t)}
    IN  IF ms = {} THEN {<<None, 0>>}
        ELSE {<<Str(t), 80>> : t \in {u \in ms : \A v \in ms : Len(v) <= Len(u)}}

\* ENVIRONMENTAL_DOCS is a Python set as well
_extract_environmental(text_upper) ==
    LET ms == {d \in ENVIRONMENTAL_DOCS : WholeWord(text_upper, d)}
    IN  IF ms = {} THEN {<<None, 0>>}
        ELSE {<<Str(d), 85>> : d \in ms}

RECURSIVE Collect_four(_, _)
\* mutant of Collect: the limit test is "> 3", so a fourth token is collected
Collect_four(tokens, collected) ==
    IF tokens = <<>> THEN collected
    ELSE IF Head(tokens) \in STOP_WORDS THEN collected
    ELSE IF Len(collected) + 1 > 3 THEN Append(collected, Head(tokens))
    ELSE Collect_four(Tail(tokens), Append(collected, Head(tokens)))

RECURSIVE Collect(_, _)
\* the loop of _extract_entity: tokens up to the first stop-word, at most 3
Collect(tokens, collected) ==
    IF tokens = <<>> THEN collected
    ELSE IF Head(tokens) \in STOP_WORDS THEN collected
    ELSE IF Len(collected) + 1 >= 3 THEN Append(collected, Head(tokens))
    ELSE Collect(Tail(tokens), Append(collected, Head(tokens)))

_extract_entity(s, keyword) ==
    LET position == find(s, keyword)
        remainder == lstrip(Slice(s, position + Len(keyword), Len(s)), {" ", ":"})
        tokens == split(remainder)
        collected == Collect(tokens, <<>>)
    IN  IF position = 0 THEN None
        ELSE IF collected = <<>> THEN None
        ELSE Str(slugify_safe(join(<<" ">>, collected)))

\* greatest element of a non-empty set of integers
Max(S) == CHOOSE m \in S : \A n \in S : n <= m

\* (?:PROPRIETARIO|PARCEIRO|CPF\s+DE) matched at index i: the set of indices
\* just past the anchor, one for each alternative that matches there
PersonAnchorEnds(s, i) ==
    LET w == RunLength(s, i + 3, Whitespace)
    IN  {e \in {i + Len(W_PROPRIETARIO), i + Len(W_PARCEIRO), i + 3 + w + 2} :
            \/ StartsAt(s, i, W_PROPRIETARIO) /\ e = i + Len(W_PROPRIETARIO)
            \/ StartsAt(s, i, W_PARCEIRO) /\ e = i + Len(W_PARCEIRO)
            \/ /\ StartsAt(s, i, W_CPF)
               /\ w >= 1
               /\ StartsAt(s, i + 3 + w, W_DE)
               /\ e = i + 3 + w + 2}

\* [:\s]+([A-Z\s]{3,50}) from index e: the set of lengths k of the [:\s]+ part
\* that leave at least 3 characters of [A-Z\s] for the group
PersonSeparatorLengths(s, e) ==
    {k \in 1..RunLength(s, e, {":"} \cup Whitespace) :
        RunLength(s, e + k, UpperOrSpace) >= 3}

\* the whole pattern of _extract_person matches at index i
PersonPattern(s, i) ==
    \E e \in PersonAnchorEnds(s, i) : PersonSeparatorLengths(s, e) # {}

\* match.group(1) for the match at index i: [:\s]+ is greedy and gives back one
\* character at a time, the group then takes up to 50 characters
PersonGroup1(s, i) ==
    LET e == CHOOSE x \in PersonAnchorEnds(s, i) : PersonSeparatorLengths(s, x) # {}
        k == Max(PersonSeparatorLengths(s, e))
        run == RunLength(s, e + k, UpperOrSpace)
        n == IF run > 50 THEN 50 ELSE run
    IN  Slice(s, e + k, e + k + n - 1)

\* re.search("(RG|CPF|...)", s): the leftmost occurrence of a code; no code
\* is a prefix of another, so the alternative matching there is unique
DocumentoSearch(s) ==
    LET occ == {d \in DOCUMENTO_PF_PJ : Contains(s, d)}
        first == CHOOSE d \in occ : \A o \in occ : find(s, d) <= find(s, o)
    IN  IF occ = {} THEN None ELSE Str(first)

\* returns <<name, doc_name, confidence>>
_extract_person(s) ==
    LET ms == {i \in 1..Len(s) : PersonPattern(s, i)}
        name == RemoveSpaces(normalize_text(PersonGroup1(s, Min(ms))))
    IN  IF ms # {} THEN <<Str(name), DocumentoSearch(s), 80>>
        ELSE <<None, None, 0>>

----------------------------------------------------------------------------
(* parsing.py: parse_document                                              *)

\* mutant of BoostContractType: the confidence is left as extracted
BoostContractType_none(r, text_clean) == r

\* the last step of parse_document: a resolved CPA in a text that contains
\* "CPR" has its confidence raised to at least 0.9
BoostContractType(r, text_clean) ==
    LET boosted == IF get_confidence(r, "tipo_contrato") > 90
                   THEN get_confidence(r, "tipo_contrato") ELSE 90
    IN  IF r.tipo_contrato = Str(W_CPA) /\ Contains(text_clean, W_CPR)
        THEN [r EXCEPT !.confidences = ("tipo_contrato" :> boosted) @@ @]
        ELSE r

\* parse_document once the three set-ordered extractors have returned
\* contract, title and env
parse_document_with(text_clean, context_hint, contract, title, env) ==
    The({LET r0 == ParsedFields
             r1 == set_value(r0, "data_assinatura", date[1], date[2])
             r2 == set_value(r1, "numero_contrato", number[1], number[2])
             contract_type == IF contract[1] = Str(W_CPR) THEN Str(W_CPA) ELSE contract[1]
             r3 == set_value(r2, "tipo_contrato", contract_type, contract[2])
             r4 == set_value(r3, "titulo_documento", title[1], title[2])
             r5 == set_value(r4, "nome_documento", env[1], env[2])
             r6 == IF Truthy(env[1]) /\ ~Truthy(r5.ano_emissao)
                   THEN IF Truthy(date[1]) /\ Len(date[1][1]) = 4
                        THEN set_value(r5, "ano_emissao", date[1], date[2])
                        ELSE IF year_match # None
                             THEN set_value(r5, "ano_emissao", year_match, 70)
                             ELSE r5
                   ELSE r5
             r7 == set_value(r6, "contexto", Str(ContextWord(context_value)),
                             IF context_hint = "auto" THEN 60 ELSE 100)
             r8 == IF context_value \in {"mercado", "auto"} /\ Truthy(fazenda_value)
                   THEN set_value(r7, "fazenda", fazenda_value, 75) ELSE r7
             r9 == IF context_value \in {"mercado", "auto"} /\ Truthy(parceiro_value)
                   THEN set_value(r8, "parceiro", parceiro_value, 75) ELSE r8
             r10 == IF context_value \in {"fundos", "auto"} /\ Truthy(fundo_value)
                    THEN set_value(r9, "fundo", fundo_value, 80) ELSE r9
             r11 == IF context_value \in {"fundos", "auto"} /\ Truthy(spe_value)
                    THEN set_value(r10, "spe", spe_value, 80) ELSE r10
             r12 == IF Truthy(person[1])
                    THEN set_value(r11, "proprietario", person[1], person[3]) ELSE r11
             r13 == IF Truthy(person[2])
                    THEN set_value(r12, "documento_pf_pj", person[2], 70) ELSE r12
         IN  BoostContractType(r13, text_clean) :
            date \in {_extract_date(text_clean)},
            number \in {_extract_contract_number(text_clean)},
            year_match \in {YEAR_PATTERN_search(text_clean)},
            context_value \in {IF context_hint # "auto" THEN context_hint
                               ELSE _detect_context(text_clean)},
            fazenda_value \in {_extract_entity(text_clean, W_FAZENDA)},
            parceiro_value \in {_extract_entity(text_clean, W_PARCEIRO)},
            fundo_value \in {_extract_entity(text_clean, W_FUNDO)},
            spe_value \in {_extract_entity(text_clean, W_SPE)},
            person \in {_extract_person(text_clean)}})

\* the set of ParsedFields parse_document can return for a text and a hint
parse_document(raw, context_hint) ==
    UNION {{parse_document_with(text_clean, context_hint, contract, title, env) :
               contract \in _extract_contract_type(text_clean),
               title \in _extract_title(text_clean),
               env \in _extract_environmental(text_clean)} :
           text_clean \in {upper(normalize_text(raw))}}

----------------------------------------------------------------------------
(* rules.py.  A call returns [kind |-> "return", value |-> filename] or    *)
(* raises: [kind |-> "RuleError", field |-> name] stands for               *)
(* RuleError("Campo obrigatório ausente: <name>").                         *)

Return(v) == [kind |-> "return", value |-> v]
RuleError(field) == [kind |-> "RuleError", field |-> field]

\* mutant of _require: only None counts as missing ("value is None")
_require_none_only(value, field) ==
    IF value = None THEN RuleError(field) ELSE Return(value[1])

_require(value, field) ==
    IF ~Truthy(value) THEN RuleError(field) ELSE Return(value[1])

RECURSIVE RequireAll(_, _)
\* the body of a _build_* function: the _require calls in the order the code
\* makes them (the first one that raises ends the call), then "_".join
RequireAll(p, required) ==
    LET first == _require(p[Head(required)], Head(required))
        rest == RequireAll(p, Tail(required))
    IN  IF required = <<>> THEN Return(<<>>)
        ELSE IF first.kind = "RuleError" THEN first
        ELSE IF Tail(required) = <<>> THEN first
        ELSE IF rest.kind = "RuleError" THEN rest
        ELSE Return(first.value \o <<"_">> \o rest.value)

\* mutant of _build_contrato_mercado: the contract type comes before the date
_build_contrato_mercado_type_first(p) ==
    RequireAll(p, <<"tipo_contrato", "data_assinatura", "numero_contrato",
                    "titulo_documento", "fazenda">>)

_build_contrato_mercado(p) ==
    RequireAll(p, <<"data_assinatura", "tipo_contrato", "numero_contrato",
                    "titulo_documento", "fazenda">>)

_build_contrato_fundos(p) ==
    RequireAll(p, <<"data_assinatura", "tipo_contrato", "numero_contrato",
                    "titulo_documento", "fundo", "spe">>)

_build_documento_mercado(p) ==
    RequireAll(p, <<"ano_emissao", "nome_documento", "fazenda", "parceiro">>)

_build_documento_fundos(p) ==
    RequireAll(p, <<"ano_emissao", "nome_documento", "fundo", "spe">>)

_build_pessoa(p) ==
    RequireAll(p, <<"proprietario", "documento_pf_pj">>)

W_fundos == <<"f", "u", "n", "d", "o", "s">>
W_auto == <<"a", "u", "t", "o">>

\* mutant of build_filename: the fund variant is chosen when fund-name or
\* spe-name alone is populated ("or" for "and")
build_filename_fund_alone(p) ==
    LET ctx == IF Truthy(p.contexto) THEN p.contexto[1] ELSE W_auto
    IN  IF Truthy(p.documento_pf_pj) /\ Truthy(p.proprietario)
        THEN _build_pessoa(p)
        ELSE IF Truthy(p.nome_documento)
        THEN IF ctx = W_fundos \/ (Truthy(p.fundo) \/ Truthy(p.spe))
             THEN _build_documento_fundos(p)
             ELSE _build_documento_mercado(p)
        ELSE IF ctx = W_fundos \/ (Truthy(p.fundo) \/ Truthy(p.spe))
        THEN _build_contrato_fundos(p)
        ELSE _build_contrato_mercado(p)

build_filename(p) ==
    LET ctx == IF Truthy(p.contexto) THEN p.contexto[1] ELSE W_auto
    IN  IF Truthy(p.documento_pf_pj) /\ Truthy(p.proprietario)
        THEN _build_pessoa(p)
        ELSE IF Truthy(p.nome_documento)
        THEN IF ctx = W_fundos \/ (Truthy(p.fundo) /\ Truthy(p.spe))
             THEN _build_documento_fundos(p)
             ELSE _build_documento_mercado(p)
        ELSE IF ctx = W_fundos \/ (Truthy(p.fundo) /\ Truthy(p.spe))
        THEN _build_contrato_fundos(p)
        ELSE _build_contrato_mercado(p)

----------------------------------------------------------------------------
(* config.py                                                               *)

ContextType == {"mercado", "fundos", "auto"}

\* Path.joinpath for a directory below a directory
joinpath(dir, name) == dir \o "/" \o name

\* AppConfig.from_env(input_dir, output_dir,
\*                    confidence_threshold=confidence_threshold,
\*                    context=context, dry_run=dry_run)
from_env(input_dir, output_dir, confidence_threshold, context, dry_run) ==
    [input_dir |-> input_dir,
     output_dir |-> output_dir,
     pendentes_dir |-> joinpath(output_dir, "_pendentes"),
     report_path |-> [dir |-> output_dir,
                      name |-> <<"r", "e", "n", "o", "m", "e", "a", "c", "o", "e", "s", ".", "c", "s", "v">>],
     confidence_threshold |->
         IF confidence_threshold = <<>> \/ confidence_threshold[1] = 0
         THEN 70 ELSE confidence_threshold[1],
     context |-> context,
     dry_run |-> dry_run]

----------------------------------------------------------------------------
(* Specification SpecRules: build_filename applied to a FieldSet built     *)
(* directly, as the tests of rules.py build it.                            *)

\* the most fields of one FieldSet that hold the empty string
MaxEmptyFields == 1

\* the value a populated field holds (the values of tests/test_rules.py)
Sample(f) ==
    CASE f = "data_assinatura" -> <<"2", "0", "2", "3", "1", "0", "1", "8">>
      [] f = "numero_contrato" -> <<"2", "3", "2", "8", "5", "3">>
      [] f = "tipo_contrato" -> <<"C", "C", "V">>
      [] f = "titulo_documento" -> <<"C", "O", "N", "T", "R">>
      [] f = "fazenda" -> <<"C", "O", "N", "T", "E", "N", "D", "A", "S">>
      [] f = "parceiro" -> <<"R", "A", "D", "I", "A", "L", "E", "U", "C", "A", "L", "Y", "P", "T">>
      [] f = "fundo" -> <<"M", "A", "N", "U", "L", "I", "F", "E">>
      [] f = "spe" -> <<"T", "R", "I", "M">>
      [] f = "ano_emissao" -> <<"2", "0", "2", "4">>
      [] f = "nome_documento" -> <<"C", "C", "I", "R">>
      [] f = "proprietario" -> <<"O", "D", "E", "T", "T", "E", "L", "E", "I", "T", "E">>
      [] f = "documento_pf_pj" -> <<"C", "P", "F">>

W_mercado == <<"m", "e", "r", "c", "a", "d", "o">>

\* the values of the contexto field: None, "", or a ContextType
ContextValues == {None, Str(<<>>), Str(W_auto), Str(W_mercado), Str(W_fundos)}

\* ParsedFields(**kwargs): the fields in populated hold their sample value,
\* those in empty hold "", the others None; confidences stays {}
MakeFields(populated, empty, contexto_value) ==
    LET v(f) == IF f \in populated THEN Str(Sample(f))
                ELSE IF f \in empty THEN Str(<<>>) ELSE None
    IN  [ParsedFields EXCEPT
            !.data_assinatura = v("data_assinatura"),
            !.numero_contrato = v("numero_contrato"),
            !.tipo_contrato = v("tipo_contrato"),
            !.titulo_documento = v("titulo_documento"),
            !.fazenda = v("fazenda"),
            !.parceiro = v("parceiro"),
            !.fundo = v("fundo"),
            !.spe = v("spe"),
            !.ano_emissao = v("ano_emissao"),
            !.nome_documento = v("nome_documento"),
            !.proprietario = v("proprietario"),
            !.documento_pf_pj = v("documento_pf_pj"),
            !.contexto = contexto_value]

\* the value of result before any call
NoResult == [kind |-> "none"]

InitRules ==
    /\ \E empty \in {e \in SUBSET (Fields \ {"contexto"}) : Cardinality(e) <= MaxEmptyFields} :
       \E populated \in SUBSET ((Fields \ {"contexto"}) \ empty) :
       \E c \in ContextValues :
           parsed = MakeFields(populated, empty, c)
    /\ text = <<>>
    /\ hint = "auto"
    /\ result = NoResult
    /\ pc = "init"
    /\ fs = {}
    /\ files = <<>>
    /\ results = <<>>
    /\ config = from_env("in", "out", None, "auto", FALSE)

\* build_filename(parsed)
BuildFilename ==
    /\ pc = "init"
    /\ result' = build_filename(parsed)
    /\ pc' = "build_filename"
    /\ UNCHANGED <<text, hint, parsed, fs, files, results, config>>

NextRules == BuildFilename

SpecRules == InitRules /\ [][NextRules]_vars

----------------------------------------------------------------------------
(* Properties of build_filename, checked under SpecRules                   *)

\* a field is non-empty: neither None nor the empty string
NonEmpty(p, f) == p[f] # None /\ p[f] # Str(<<>>)

\* the fund variant applies: context == 'fundos' or fund-name and spe-name
\* are both non-empty
FundVariant(p) ==
    p.contexto = Str(W_fundos) \/ (NonEmpty(p, "fundo") /\ NonEmpty(p, "spe"))

\* the required fields, in declared order, of the template the stated
\* precedence selects
TemplateFields(p) ==
    IF NonEmpty(p, "proprietario") /\ NonEmpty(p, "documento_pf_pj")
    THEN <<"proprietario", "documento_pf_pj">>
    ELSE IF NonEmpty(p, "nome_documento")
    THEN IF FundVariant(p)
         THEN <<"ano_emissao", "nome_documento", "fundo", "spe">>
         ELSE <<"ano_emissao", "nome_documento", "fazenda", "parceiro">>
    ELSE IF FundVariant(p)
    THEN <<"data_assinatura", "tipo_contrato", "numero_contrato",
           "titulo_documento", "fundo", "spe">>
    ELSE <<"data_assinatura", "tipo_contrato", "numero_contrato",
           "titulo_documento", "fazenda">>

\* the indices of the empty fields of a required-field list
EmptyAt(p, req) == {i \in 1..Len(req) : ~NonEmpty(p, req[i])}

\* the required values of a complete template, in declared order, separated
\* by "_"
JoinedTokens(p, req) ==
    Flatten([i \in 1..Len(req) |->
                IF i = 1 THEN p[req[i]][1] ELSE <<"_">> \o p[req[i]][1]])

\* C2: build_filename applies the template chosen by the precedence person >
\* standalone-document > contract, with the fund variant iff context is
\* 'fundos' or fund-name and spe-name are both non-empty; when every required
\* field of that template is non-empty the result is the '_'-join of the
\* required values in declared order.
C2_TemplateByPrecedence ==
    pc = "build_filename" =>
        LET req == TemplateFields(parsed)
        IN  EmptyAt(parsed, req) = {} =>
                result = [kind |-> "return", value |-> JoinedTokens(parsed, req)]

\* C2 witness: a standalone document whose context says market but whose
\* fund-name and spe-name are both populated is named by the fund template
C2_Witness ==
    /\ pc = "build_filename"
    /\ parsed.contexto = Str(W_mercado)
    /\ NonEmpty(parsed, "nome_documento")
    /\ NonEmpty(parsed, "fazenda")
    /\ NonEmpty(parsed, "parceiro")
    /\ NonEmpty(parsed, "fundo")
    /\ NonEmpty(parsed, "spe")
    /\ NonEmpty(parsed, "ano_emissao")
    /\ result.kind = "return"
    /\ result.value = JoinedTokens(parsed, <<"ano_emissao", "nome_documento", "fundo", "spe">>)

\* C3: for the FieldSet in which only owner-name is populated
\* (proprietario = 'ODETTELEITE'), build_filename fails with a RuleError that
\* names documento_pf_pj.
C3_OwnerOnlyNamesIdentityDocument ==
    (pc = "build_filename" /\ parsed = MakeFields({"proprietario"}, {}, None)) =>
        result = [kind |-> "RuleError", field |-> "documento_pf_pj"]

\* C4: when the chosen template has an empty required field (None or ""),
\* build_filename raises RuleError naming the first empty field in declared
\* order and returns no filename; a returned filename has no empty token.
C4_FirstMissingFieldRaises ==
    pc = "build_filename" =>
        LET req == TemplateFields(parsed)
            missing == EmptyAt(parsed, req)
        IN  /\ result.kind \in {"return", "RuleError"}
            /\ missing # {} =>
                 result = [kind |-> "RuleError", field |-> req[Min(missing)]]
            /\ result.kind = "return" => missing = {}

\* C4 witness: the first required fields are populated, a later one holds the
\* empty string, and the error names that one
C4_Witness ==
    /\ pc = "build_filename"
    /\ NonEmpty(parsed, "data_assinatura")
    /\ NonEmpty(parsed, "tipo_contrato")
    /\ parsed.numero_contrato = Str(<<>>)
    /\ parsed.titulo_documento = None
    /\ result = [kind |-> "RuleError", field |-> "numero_contrato"]

----------------------------------------------------------------------------
(* Specification SpecEntity: _extract_entity applied to uppercased,        *)
(* single-spaced texts made of a few tokens.                               *)

\* the most tokens of a text
MaxEntityTokens == 5

\* the tokens: the two market anchors (both stop-words), a colon, a word, a
\* word with punctuation, and a connective that is a stop-word
EntityTokens == {W_FAZENDA, W_PARCEIRO, <<":">>, <<"A">>, <<"B", ".">>, W_DE}

EntityTexts ==
    UNION {{join(<<" ">>, ts) : ts \in [1..n -> EntityTokens]} : n \in 0..MaxEntityTokens}

InitEntity ==
    /\ text \in EntityTexts
    /\ hint = "auto"
    /\ parsed = ParsedFields
    /\ result = NoResult
    /\ pc = "init"
    /\ fs = {}
    /\ files = <<>>
    /\ results = <<>>
    /\ config = from_env("in", "out", None, "auto", FALSE)

\* _extract_entity(text, keyword)
ExtractEntity(keyword) ==
    /\ pc = "init"
    /\ result' = [kind |-> "entity", keyword |-> keyword,
                  value |-> _extract_entity(text, keyword)]
    /\ pc' = "_extract_entity"
    /\ UNCHANGED <<text, hint, parsed, fs, files, results, config>>

NextEntity == \E keyword \in {W_FAZENDA, W_PARCEIRO} : ExtractEntity(keyword)

SpecEntity == InitEntity /\ [][NextEntity]_vars

\* the value the description of entity extraction assigns to a text and an
\* anchor: the tokens of what follows the first occurrence of the anchor
\* (after its leading spaces and colons are dropped, when skip is TRUE), up
\* to the first stop-word and at most 3; their alphanumeric characters,
\* uppercased; no value without the anchor or without a collected token
EntityByDescription(s, keyword, skip) ==
    LET at == {i \in 1..Len(s) : StartsAt(s, i, keyword)}
        first == CHOOSE i \in at : \A j \in at : i <= j
        after == Slice(s, first + Len(keyword), Len(s))
        toks == split(IF skip THEN lstrip(after, {" ", ":"}) ELSE after)
        limit == IF Len(toks) < 3 THEN Len(toks) ELSE 3
        n == CHOOSE k \in 0..limit :
                /\ \A j \in 1..k : toks[j] \notin STOP_WORDS
                /\ k = limit \/ toks[k + 1] \in STOP_WORDS
        chars == Flatten([j \in 1..n |-> toks[j]])
        kept == [j \in 1..Cardinality({x \in 1..Len(chars) : isalnum(chars[x])}) |->
                    CharUpper(chars[CHOOSE x \in 1..Len(chars) :
                        /\ isalnum(chars[x])
                        /\ Cardinality({y \in 1..x : isalnum(chars[y])}) = j])]
    IN  IF at = {} THEN None
        ELSE IF n = 0 THEN None
        ELSE Str(kept)

\* C8 as stated: the collected tokens are the whitespace-delimited tokens
\* that follow the first occurrence of the anchor, up to the first stop-word
\* and at most 3; the result is their alphanumeric characters, uppercased.
\* (An empty result and no result both count as "no value" here.)
C8_TokensAfterAnchor ==
    pc = "_extract_entity" =>
        LET claimed == EntityByDescription(text, result.keyword, FALSE)
        IN  IF Truthy(claimed) THEN result.value = claimed
            ELSE ~Truthy(result.value)

\* C8 amended: the tokens are those of the text that follows the anchor once
\* its leading spaces and colons are dropped; otherwise as stated.
C8_TokensAfterAnchorAndColons ==
    pc = "_extract_entity" =>
        result.value = EntityByDescription(text, result.keyword, TRUE)

\* C8 witness: a colon follows the anchor and the three tokens after the colon
\* were collected
C8_Witness ==
    /\ pc = "_extract_entity"
    /\ text = <<"F", "A", "Z", "E", "N", "D", "A", " ", ":", " ", "A", " ", "B", ".", " ", "A">>
    /\ result.keyword = W_FAZENDA
    /\ result.value = Str(<<"A", "B", "A">>)

----------------------------------------------------------------------------
(* Specification SpecParse: parse_document applied to raw texts made of a  *)
(* few different space-separated tokens, under each context hint.          *)

\* the most tokens of a text
MaxParseTokens == 3

\* the tokens: a date, a date with other separators, a bare year, a contract
\* number with a suffix, three contract-type codes (one lowercase in
\* parentheses), and a word that contains two codes without either being a
\* whole word
ParseTokens == {
    <<"1", "8", "/", "1", "0", "/", "2", "0", "2", "3">>,
    <<"0", "5", ".", "0", "6", "-", "2", "0", "2", "1">>,
    <<"2", "0", "2", "4">>,
    <<"2", "3", "2", "8", "5", "3", "/", "1">>,
    <<"C", "P", "A">>,
    <<"(", "c", "p", "r", ")">>,
    <<"C", "C", "V">>,
    <<"C", "P", "A", "C", "P", "R">>}

\* the texts: up to MaxParseTokens different tokens in any order
ParseTexts ==
    UNION {{join(<<" ">>, ts) :
               ts \in {f \in [1..n -> ParseTokens] :
                          \A i, j \in 1..n : i # j => f[i] # f[j]}} :
           n \in 0..MaxParseTokens}

ContextHints == {"auto", "mercado", "fundos"}

InitParse ==
    /\ text \in ParseTexts
    /\ hint = "auto"
    /\ parsed = ParsedFields
    /\ result = NoResult
    /\ pc = "init"
    /\ fs = {}
    /\ files = <<>>
    /\ results = <<>>
    /\ config = from_env("in", "out", None, "auto", FALSE)

\* parse_document(text, context_hint=h)
ParseDocument(h) ==
    /\ pc = "init"
    /\ hint' = h
    /\ parsed' \in parse_document(text, h)
    /\ pc' = "parse_document"
    /\ UNCHANGED <<text, result, fs, files, results, config>>

NextParse == \E h \in ContextHints : ParseDocument(h)

SpecParse == InitParse /\ [][NextParse]_vars

----------------------------------------------------------------------------
(* Properties of the extractors, checked under SpecParse                   *)

\* the text the extractors scan
TextClean == upper(normalize_text(text))

\* the indices where a contract number (5 to 8 digits delimited by word
\* boundaries, with an optional /digits or -digits suffix) starts
NumberStarts(s) == {i \in 1..Len(s) : CONTRACT_NUMBER_PATTERN(s, i) # {}}

\* the first contract number of s is followed by "/" or "-" and digits
FirstNumberHasSuffix(s) ==
    /\ NumberStarts(s) # {}
    /\ \E nm \in CONTRACT_NUMBER_PATTERN(s, Min(NumberStarts(s))) : nm[2] > 0

\* the leading digit run of the first contract number of s
FirstNumberLeadingRun(s) ==
    LET i == Min(NumberStarts(s))
    IN  Slice(s, i, i + RunLength(s, i, Digits) - 1)

\* C5: when the first contract-number match is a run of 5 to 8 digits followed
\* by '/' or '-' and further digits, numero_contrato is the leading run only
\* (the suffix digits are discarded), with confidence 0.90.
C5_SuffixDiscarded ==
    (pc = "parse_document" /\ FirstNumberHasSuffix(TextClean)) =>
        /\ parsed.numero_contrato = Str(FirstNumberLeadingRun(TextClean))
        /\ get_confidence(parsed, "numero_contrato") = 90

\* s contains the code as a whole word
HasWord(s, code) ==
    \E i \in 1..Len(s) :
        /\ StartsAt(s, i, code)
        /\ i = 1 \/ ~IsWord(s[i - 1])
        /\ i + Len(code) > Len(s) \/ ~IsWord(s[i + Len(code)])

\* C6 as stated: for every text that contains both 'CPA' and 'CPR' the
\* contract-type is 'CPA' with confidence >= 0.90, and the contract-type is
\* never 'CPR'.
C6_CpaWheneverBothOccur ==
    pc = "parse_document" =>
        /\ parsed.tipo_contrato # Str(W_CPR)
        /\ (Contains(TextClean, W_CPA) /\ Contains(TextClean, W_CPR)) =>
              /\ parsed.tipo_contrato = Str(W_CPA)
              /\ get_confidence(parsed, "tipo_contrato") >= 90

\* C6 amended: for every text that contains both 'CPA' and 'CPR', at least one
\* of them as a whole word, and no other contract-type code as a whole word,
\* the contract-type is 'CPA' with confidence >= 0.90; the contract-type is
\* never 'CPR'.
C6_CpaWhenNoOtherCode ==
    pc = "parse_document" =>
        /\ parsed.tipo_contrato # Str(W_CPR)
        /\ ( /\ Contains(TextClean, W_CPA)
             /\ Contains(TextClean, W_CPR)
             /\ HasWord(TextClean, W_CPA) \/ HasWord(TextClean, W_CPR)
             /\ \A t \in CONTRACT_TYPES \ {W_CPA, W_CPR} : ~HasWord(TextClean, t) ) =>
              /\ parsed.tipo_contrato = Str(W_CPA)
              /\ get_confidence(parsed, "tipo_contrato") >= 90

\* C6 witness: a text with CPA and (CPR) and no other code was parsed
C6_Witness ==
    /\ pc = "parse_document"
    /\ Contains(TextClean, W_CPA)
    /\ HasWord(TextClean, W_CPR)
    /\ \A t \in CONTRACT_TYPES \ {W_CPA, W_CPR} : ~HasWord(TextClean, t)
    /\ parsed.tipo_contrato = Str(W_CPA)
    /\ parsed.confidences["tipo_contrato"] = 90

\* a DD<sep>MM<sep>YYYY pattern starts at index i of s
IsDateAt(s, i) ==
    /\ i + 9 <= Len(s)
    /\ \A k \in {0, 1, 3, 4, 6, 7, 8, 9} : s[i + k] \in Digits
    /\ \A k \in {2, 5} : s[i + k] \in {"/", "-", "."}

\* a standalone 4-digit token beginning with '20' starts at index i of s
IsYearAt(s, i) ==
    /\ i + 3 <= Len(s)
    /\ s[i] = "2" /\ s[i + 1] = "0"
    /\ s[i + 2] \in Digits /\ s[i + 3] \in Digits
    /\ i = 1 \/ ~IsWord(s[i - 1])
    /\ i + 4 > Len(s) \/ ~IsWord(s[i + 4])

\* C7: with a DD<sep>MM<sep>YYYY pattern in the text, data_assinatura is
\* YYYYMMDD of the first such match with confidence 0.95; without one but with
\* a standalone 4-digit token starting with '20', it is the first such year
\* with confidence 0.70; otherwise it is empty with confidence 0.
C7_SigningDate ==
    pc = "parse_document" =>
        LET s == TextClean
            dates == {i \in 1..Len(s) : IsDateAt(s, i)}
            years == {i \in 1..Len(s) : IsYearAt(s, i)}
            d == Min(dates)
            y == Min(years)
        IN  IF dates # {}
            THEN /\ parsed.data_assinatura =
                      Str(<<s[d + 6], s[d + 7], s[d + 8], s[d + 9],
                            s[d + 3], s[d + 4], s[d], s[d + 1]>>)
                 /\ "data_assinatura" \in DOMAIN parsed.confidences
                 /\ parsed.confidences["data_assinatura"] = 95
            ELSE IF years # {}
            THEN /\ parsed.data_assinatura = Str(<<s[y], s[y + 1], s[y + 2], s[y + 3]>>)
                 /\ "data_assinatura" \in DOMAIN parsed.confidences
                 /\ parsed.confidences["data_assinatura"] = 70
            ELSE /\ parsed.data_assinatura = None
                 /\ "data_assinatura" \notin DOMAIN parsed.confidences

\* C7 witness: the first date of the text uses '.' and '-' as separators and
\* was emitted as YYYYMMDD although a bare year precedes it
C7_Witness ==
    /\ pc = "parse_document"
    /\ text = <<"2", "0", "2", "4", " ", "0", "5", ".", "0", "6", "-", "2", "0", "2", "1", " ", "1", "8", "/", "1", "0", "/", "2", "0", "2", "3">>
    /\ parsed.data_assinatura = Str(<<"2", "0", "2", "1", "0", "6", "0", "5">>)
    /\ parsed.confidences["data_assinatura"] = 95

----------------------------------------------------------------------------
(* Paths and the filesystem.  A path is [dir, name]; the directory itself  *)
(* is the path with the empty name.  fs maps each existing path to the     *)
(* identity of the file stored there (the path it had initially), so a     *)
(* rename that replaced an existing file would lose an identity.           *)

Path(dir, name) == [dir |-> dir, name |-> name]

DirPath(dir) == Path(dir, <<>>)

\* Path.exists()
exists(f, path) == path \in DOMAIN f

\* the characters of the model in code-point order
CodePointOrder ==
    <<"\t", "\n", " ", "(", ")", "-", ".", "/",
      "0", "1", "2", "3", "4", "5", "6", "7", "8", "9", ":",
      "A", "B", "C", "D", "E", "F", "G", "H", "I", "J", "K", "L", "M",
      "N", "O", "P", "Q", "R", "S", "T", "U", "V", "W", "X", "Y", "Z", "_",
      "a", "b", "c", "d", "e", "f", "g", "h", "i", "j", "k", "l", "m",
      "n", "o", "p", "q", "r", "s", "t", "u", "v", "w", "x", "y", "z",
      "U+00A8", "U+00CD", "U+00DA", "U+00ED", "U+00FA", "U+0301", "U+0308">>

\* ord(c)
Ord(c) == CHOOSE i \in 1..Len(CodePointOrder) : CodePointOrder[i] = c

RECURSIVE StrLess(_, _)
\* a < b on str
StrLess(a, b) ==
    IF b = <<>> THEN FALSE
    ELSE IF a = <<>> THEN TRUE
    ELSE IF Head(a) # Head(b) THEN Ord(Head(a)) < Ord(Head(b))
    ELSE StrLess(Tail(a), Tail(b))

RECURSIVE sorted(_)
\* sorted(paths) for paths of one directory
sorted(paths) ==
    IF paths = {} THEN <<>>
    ELSE LET least == CHOOSE p \in paths :
                          \A q \in paths \ {p} : StrLess(p.name, q.name)
         IN  <<least>> \o sorted(paths \ {least})

\* str.lower() on one character
CharLower(c) ==
    IF \E l \in LowerAZ : CharUpper(l) = c
    THEN CHOOSE l \in LowerAZ : CharUpper(l) = c
    ELSE c

\* PurePath.suffix: from the last dot, unless it is the first or last character
suffix(name) ==
    LET dots == {i \in 1..Len(name) : name[i] = "."}
    IN  IF dots # {} /\ 1 < Max(dots) /\ Max(dots) < Len(name)
        THEN Slice(name, Max(dots), Len(name))
        ELSE <<>>

\* PurePath.stem
stem(name) == Slice(name, 1, Len(name) - Len(suffix(name)))

SUPPORTED_EXTENSIONS == {
    <<"p", "d", "f">>, <<"p", "n", "g">>, <<"j", "p", "g">>, <<"j", "p", "e", "g">>, <<"t", "i", "f", "f">>, <<"b", "m", "p">>, <<"g", "i", "f">>, <<"t", "x", "t">>}

\* list(iter_files([directory], SUPPORTED_EXTENSIONS)) for a flat directory
iter_files(f, directory) ==
    sorted({p \in DOMAIN f :
              /\ p.dir = directory
              /\ p.name # <<>>
              /\ lstrip([i \in 1..Len(suffix(p.name)) |-> CharLower(suffix(p.name)[i])],
                        {"."}) \in SUPPORTED_EXTENSIONS})

\* the directory a directory lies in; "." holds the top-level directories
\* and always exists
parent(dir) ==
    IF \E d \in {"in", "out"} : dir = joinpath(d, "_pendentes")
    THEN CHOOSE d \in {"in", "out"} : dir = joinpath(d, "_pendentes")
    ELSE "."

\* Path.mkdir(exist_ok=True) where the parent exists
mkdir_one(f, dir) ==
    IF exists(f, DirPath(dir)) THEN f ELSE (DirPath(dir) :> DirPath(dir)) @@ f

\* Path.mkdir(parents=True, exist_ok=True)
mkdir(f, dir) ==
    mkdir_one(IF parent(dir) = "." THEN f ELSE mkdir_one(f, parent(dir)), dir)

----------------------------------------------------------------------------
(* renamer.py                                                              *)

RenameResult(original_path, new_path, status, message) ==
    [original_path |-> original_path, new_path |-> new_path,
     status |-> status, message |-> message]

RECURSIVE Decimal(_)
\* str(n) for n >= 0
Decimal(n) ==
    LET digit == <<"0", "1", "2", "3", "4", "5", "6", "7", "8", "9">>[(n % 10) + 1]
    IN  IF n < 10 THEN <<digit>> ELSE Decimal(n \div 10) \o <<digit>>

\* mutant of ResolveFrom: the first candidate is returned without testing
\* whether it exists
ResolveFrom_unchecked(f, dir, base, sfx, counter) ==
    Path(dir, base \o <<"_", "v">> \o Decimal(counter) \o sfx)

RECURSIVE ResolveFrom(_, _, _, _, _)
\* the while loop of _resolve_collision
ResolveFrom(f, dir, base, sfx, counter) ==
    LET candidate == Path(dir, base \o <<"_", "v">> \o Decimal(counter) \o sfx)
    IN  IF ~exists(f, candidate) THEN candidate
        ELSE ResolveFrom(f, dir, base, sfx, counter + 1)

_resolve_collision(f, target_path) ==
    IF ~exists(f, target_path) THEN target_path
    ELSE ResolveFrom(f, target_path.dir, stem(target_path.name),
                     suffix(target_path.name), 2)

\* Path.rename(target): the file at source moves to target, replacing what
\* is there
MoveFile(f, source, target) ==
    [p \in (DOMAIN f \ {source}) \cup {target} |->
        IF p = target THEN f[source] ELSE f[p]]

\* mutant of rename_file: a move the operating system refuses is reported
\* as done
rename_file_failure_unreported(f, source, new_name, out_dir, dry_run, io_ok) ==
    LET f1 == mkdir(f, out_dir)
        final_name == new_name \o suffix(source.name)
        target_path == _resolve_collision(f1, Path(out_dir, final_name))
    IN  IF dry_run
        THEN [fs |-> f1,
              value |-> RenameResult(source, target_path, "dry_run", "Simulação")]
        ELSE [fs |-> IF exists(f1, source) /\ io_ok
                     THEN MoveFile(f1, source, target_path) ELSE f1,
              value |-> RenameResult(source, target_path, "renamed", "")]

\* rename_file(src_path, new_name, out_dir, dry_run=dry_run); io_ok is FALSE
\* when the operating system refuses the move.  Returns the filesystem after
\* the call and the RenameResult.
rename_file(f, source, new_name, out_dir, dry_run, io_ok) ==
    LET f1 == mkdir(f, out_dir)
        final_name == new_name \o suffix(source.name)
        target_path == _resolve_collision(f1, Path(out_dir, final_name))
    IN  IF dry_run
        THEN [fs |-> f1,
              value |-> RenameResult(source, target_path, "dry_run", "Simulação")]
        ELSE IF exists(f1, source) /\ io_ok
        THEN [fs |-> MoveFile(f1, source, target_path),
              value |-> RenameResult(source, target_path, "renamed", "")]
        ELSE [fs |-> f1,
              value |-> RenameResult(source, target_path, "error", "OSError")]

----------------------------------------------------------------------------
(* Specification SpecRename: a sequence of rename_file calls without       *)
(* dry_run into the directory "out".  The source of a call is any file     *)
(* that exists, in the directory "in" or in "out" itself; the caller       *)
(* supplies the new name.                                                  *)

\* the highest version suffix among the files the output directory holds
\* initially
MaxVersion == 3

\* the number of rename_file calls in a sequence
MaxCalls == 3

W_report == <<"r", "e", "p", "o", "r", "t">>

\* the files the directory "in" may hold
InFiles == {Path("in", <<"a", ".", "p", "d", "f">>), Path("in", <<"b", ".", "p", "d", "f">>)}

\* the files the directory "out" may hold initially: report.pdf and its
\* versions report_v2.pdf, report_v3.pdf, ...
OutFiles ==
    {Path("out", W_report \o <<".", "p", "d", "f">>)}
    \cup {Path("out", W_report \o <<"_", "v">> \o Decimal(n) \o <<".", "p", "d", "f">>) : n \in 2..MaxVersion}

\* the name the caller asks for
NewNames == {W_report}

\* the regular files of a filesystem
RegularFiles(f) == {p \in DOMAIN f : p.name # <<>>}

InitRename ==
    /\ \E ins \in SUBSET InFiles, outs \in SUBSET OutFiles, out_exists \in BOOLEAN :
          LET paths == ins \cup outs \cup {DirPath("in")}
                       \cup (IF out_exists \/ outs # {} THEN {DirPath("out")} ELSE {})
          IN  fs = [p \in paths |-> p]
    /\ files = <<>>
    /\ text = <<>>
    /\ hint = "auto"
    /\ parsed = ParsedFields
    /\ result = NoResult
    /\ pc = "init"
    /\ results = <<>>
    /\ config = from_env("in", "out", None, "auto", FALSE)

\* rename_file(source, new_name, "out")
RenameFile(source, new_name, io_ok) ==
    /\ Len(results) < MaxCalls
    /\ source \in RegularFiles(fs)
    /\ LET r == rename_file(fs, source, new_name, "out", FALSE, io_ok)
       IN  /\ fs' = r.fs
           /\ results' = Append(results, r.value)
           /\ result' = [kind |-> "rename_file", new_name |-> new_name,
                         dry_run |-> FALSE, value |-> r.value]
    /\ pc' = "rename_file"
    /\ UNCHANGED <<text, hint, parsed, files, config>>

NextRename ==
    \E source \in DOMAIN fs, new_name \in NewNames, io_ok \in BOOLEAN :
        RenameFile(source, new_name, io_ok)

SpecRename == InitRename /\ [][NextRename]_vars

\* the extension of a file name: its characters from the last dot on
Extension(name) ==
    LET dots == {i \in 1..Len(name) : name[i] = "."}
        last == CHOOSE i \in dots : \A j \in dots : j <= i
    IN  IF dots = {} THEN <<>> ELSE [k \in 1..(Len(name) - last + 1) |-> name[last + k - 1]]

\* base_vN+ext in the output directory
Versioned(base, n, ext) == Path("out", base \o <<"_", "v">> \o Decimal(n) \o ext)

\* the call just made resolved its target to base+ext if no file existed
\* there, otherwise to base_vN+ext for the smallest N >= 2 at which no file
\* existed
ResolvedToFirstFree(before, r, base, ext) ==
    /\ ~exists(before, Path("out", base \o ext)) =>
         r.new_path = Path("out", base \o ext)
    /\ exists(before, Path("out", base \o ext)) =>
         \E n \in 2..(Cardinality(DOMAIN before) + 2) :
             /\ r.new_path = Versioned(base, n, ext)
             /\ ~exists(before, Versioned(base, n, ext))
             /\ \A m \in 2..(n - 1) : exists(before, Versioned(base, m, ext))

\* the move just made went to a path at which nothing existed, and every
\* other file is where and what it was
NothingOverwritten(before, after, r) ==
    /\ ~exists(before, r.new_path)
    /\ \A p \in DOMAIN before \ {r.original_path} : exists(after, p) /\ after[p] = before[p]
    /\ exists(after, r.new_path) /\ after[r.new_path] = before[r.original_path]

\* the target of the move just made differs from the target of every earlier
\* 'renamed' outcome
TargetIsNew(earlier, r) ==
    \A k \in 1..Len(earlier) :
        earlier[k].status = "renamed" => earlier[k].new_path # r.new_path

\* every call so far took its source from outside the output directory
SourcesOutside(rs) == \A k \in 1..Len(rs) : rs[k].original_path.dir # "out"

\* C10 as stated: the resolved target is base+ext if no file exists there,
\* otherwise base_vN+ext for the smallest free N >= 2; when a move is issued
\* its target does not exist and no existing file is overwritten; and the
\* targets of 'renamed' outcomes are pairwise distinct over any sequence of
\* calls.
C10_TargetsPairwiseDistinct ==
    [][pc' = "rename_file" /\ Len(results') = Len(results) + 1 =>
        LET r == result'.value
            before == mkdir(fs, "out")
        IN  /\ ResolvedToFirstFree(before, r, result'.new_name, Extension(r.original_path.name))
            /\ r.status = "renamed" =>
                 NothingOverwritten(before, fs', r) /\ TargetIsNew(results, r)]_vars

\* C10 amended: as above, but the targets of 'renamed' outcomes are pairwise
\* distinct over sequences of calls whose sources all lie outside the
\* directory the files are renamed into.
C10_TargetsDistinctForOutsideSources ==
    [][pc' = "rename_file" /\ Len(results') = Len(results) + 1 =>
        LET r == result'.value
            before == mkdir(fs, "out")
        IN  /\ ResolvedToFirstFree(before, r, result'.new_name, Extension(r.original_path.name))
            /\ r.status = "renamed" =>
                 /\ NothingOverwritten(before, fs', r)
                 /\ SourcesOutside(results') => TargetIsNew(results, r)]_vars

\* C10 witness: report.pdf and report_v2.pdf existed, a file from outside
\* was moved to report_v3.pdf after an earlier move from outside
C10_Witness ==
    /\ pc = "rename_file"
    /\ result.new_name = W_report
    /\ result.value.status = "renamed"
    /\ result.value.new_path = Path("out", <<"r", "e", "p", "o", "r", "t", "_", "v", "3", ".", "p", "d", "f">>)
    /\ exists(fs, Path("out", <<"r", "e", "p", "o", "r", "t", ".", "p", "d", "f">>))
    /\ exists(fs, Path("out", <<"r", "e", "p", "o", "r", "t", "_", "v", "2", ".", "p", "d", "f">>))
    /\ SourcesOutside(results)
    /\ Len(results) >= 2
    /\ results[1].status = "renamed"

----------------------------------------------------------------------------
(* ocr_chandra.py, report.py and cli.py                                    *)

\* the ways a run_ocr call can end: "text" (the text was read or
\* recognised), "pages" (a PDF whose pages were rendered into out_dir and
\* recognised), "empty" (no OCR backend: the text is empty), "raise"
OcrOutcomes(path) ==
    IF suffix(path.name) = <<".", "t", "x", "t">> THEN {"text", "raise"}
    ELSE IF suffix(path.name) = <<".", "p", "d", "f">> THEN {"text", "pages", "empty", "raise"}
    ELSE {"text", "empty", "raise"}

\* run_ocr(input_path, provider=provider, out_dir=out_dir) on a file whose
\* content reads as content; returns the filesystem after the call, whether
\* an exception was raised, and the text
run_ocr(f, input_path, out_dir, content, outcome) ==
    [fs |-> IF outcome = "pages"
            THEN LET f1 == mkdir(f, out_dir)
                     image_path == Path(out_dir, stem(input_path.name) \o <<"_", "p", "a", "g", "e", "0", "0", "1", ".", "p", "n", "g">>)
                 IN  [p \in DOMAIN f1 \cup {image_path} |->
                         IF p = image_path THEN Path("image", input_path.name) ELSE f1[p]]
            ELSE f,
     raised |-> outcome = "raise",
     text |-> IF outcome \in {"text", "pages"} THEN content ELSE <<>>]

\* generate_report(results, parsed_map, output_path): the file written
generate_report(f, output_path) ==
    LET f1 == mkdir(f, output_path.dir)
    IN  [p \in DOMAIN f1 \cup {output_path} |->
            IF p = output_path THEN Path("report", <<>>) ELSE f1[p]]

\* mutant of _required_fields: the fund lists are chosen by the context alone
_required_fields_context_only(p) ==
    IF Truthy(p.documento_pf_pj) /\ Truthy(p.proprietario)
    THEN <<"proprietario", "documento_pf_pj">>
    ELSE IF Truthy(p.nome_documento)
    THEN IF p.contexto = Str(W_fundos)
         THEN <<"ano_emissao", "nome_documento", "fundo", "spe">>
         ELSE <<"ano_emissao", "nome_documento", "fazenda", "parceiro">>
    ELSE IF p.contexto = Str(W_fundos)
    THEN <<"data_assinatura", "tipo_contrato", "numero_contrato",
           "titulo_documento", "fundo", "spe">>
    ELSE <<"data_assinatura", "tipo_contrato", "numero_contrato",
           "titulo_documento", "fazenda">>

_required_fields(p) ==
    IF Truthy(p.documento_pf_pj) /\ Truthy(p.proprietario)
    THEN <<"proprietario", "documento_pf_pj">>
    ELSE IF Truthy(p.nome_documento)
    THEN IF p.contexto = Str(W_fundos) \/ (Truthy(p.fundo) /\ Truthy(p.spe))
         THEN <<"ano_emissao", "nome_documento", "fundo", "spe">>
         ELSE <<"ano_emissao", "nome_documento", "fazenda", "parceiro">>
    ELSE IF p.contexto = Str(W_fundos) \/ (Truthy(p.fundo) /\ Truthy(p.spe))
    THEN <<"data_assinatura", "tipo_contrato", "numero_contrato",
           "titulo_documento", "fundo", "spe">>
    ELSE <<"data_assinatura", "tipo_contrato", "numero_contrato",
           "titulo_documento", "fazenda">>

\* mutant of _confidence_ok: a confidence equal to the threshold fails
_confidence_ok_above_only(p, required, threshold) ==
    \A i \in 1..Len(required) : ~(get_confidence(p, required[i]) <= threshold)

\* mutant of _confidence_ok: only the first required field is looked at
_confidence_ok_first_only(p, required, threshold) ==
    ~(get_confidence(p, required[1]) < threshold)

_confidence_ok(p, required, threshold) ==
    \A i \in 1..Len(required) : ~(get_confidence(p, required[i]) < threshold)

\* _save_pending(src, pendentes_dir, reason, parsed); copy_ok is FALSE when
\* the copy raises (the exception is caught)
_save_pending(f, src, pendentes_dir, copy_ok) ==
    LET f1 == mkdir(f, pendentes_dir)
        destino == Path(pendentes_dir, src.name)
        md_path == Path(pendentes_dir, stem(src.name) \o <<".", "m", "d">>)
        copied == IF copy_ok /\ exists(f1, src) THEN {destino} ELSE {}
    IN  [p \in DOMAIN f1 \cup copied \cup {md_path} |->
            IF p = md_path THEN Path("md", src.name)
            ELSE IF p \in copied THEN f1[src]
            ELSE f1[p]]

\* str(exc) of a RuleError
RuleErrorMessage(error) == "Campo obrigatório ausente: " \o error.field

\* the body of the loop of process from parse_document's result on: the
\* filesystem after it, the RenameResult appended, and the call at which the
\* iteration ended
process_parsed(f, file_path, p, cfg, io_ok) ==
    LET required == _required_fields(p)
        new_name == build_filename(p)
    IN  IF ~_confidence_ok(p, required, cfg.confidence_threshold)
        THEN [fs |-> _save_pending(f, file_path, cfg.pendentes_dir, io_ok),
              value |-> RenameResult(file_path, Path(cfg.pendentes_dir, file_path.name),
                                     "pending", "Confiança insuficiente"),
              step |-> "_confidence_ok"]
        ELSE IF new_name.kind = "RuleError"
        THEN [fs |-> _save_pending(f, file_path, cfg.pendentes_dir, io_ok),
              value |-> RenameResult(file_path, Path(cfg.pendentes_dir, file_path.name),
                                     "pending", RuleErrorMessage(new_name)),
              step |-> "build_filename"]
        ELSE LET r == rename_file(f, file_path, new_name.value, cfg.output_dir,
                                  cfg.dry_run, io_ok)
             IN  [fs |-> r.fs, value |-> r.value, step |-> "rename_file"]

----------------------------------------------------------------------------
(* Specification SpecProcess: one run of cli.process over an input         *)
(* directory "in" holding some of a few documents, into the directory      *)
(* "out".                                                                  *)

\* the number of files the input directory holds
MaxFiles == 2

\* the text of the end-to-end test
ContratoText == <<"C", "o", "n", "t", "r", "a", "t", "o", " ", "c", "e", "l", "e", "b", "r", "a", "d", "o", " ", "e", "m", " ", "1", "8", "/", "1", "0", "/", "2", "0", "2", "3", " ", "c", "o", "m", " ", "n", "U+00FA", "m", "e", "r", "o", " ", "2", "3", "2", "8", "5", "3", ".", " ", "T", "i", "p", "o", " ", "C", "C", "V", " ", "t", "U+00ED", "t", "u", "l", "o", " ", "C", "O", "N", "T", "R", ".", " ", "F", "a", "z", "e", "n", "d", "a", " ", "C", "o", "n", "t", "e", "n", "d", "a", "s", " ", "p", "a", "r", "c", "e", "i", "r", "o", " ", "R", "a", "d", "i", "a", "l", " ", "E", "u", "c", "a", "l", "y", "p", "t", ".">>

\* the files the input directory may hold: file name and what the file reads
\* as; the extension of leia.md is not one of SUPPORTED_EXTENSIONS
Documents ==
    {[name |-> <<"c", "o", "n", "t", "r", "a", "t", "o", ".", "t", "x", "t">>, content |-> ContratoText],
     [name |-> <<"c", "o", "p", "i", "a", ".", "t", "x", "t">>, content |-> ContratoText],
     [name |-> <<"a", "n", "o", ".", "t", "x", "t">>, content |-> <<"2", "0", "2", "4", " ", "C", "C", "V", " ", "1", "2", "3", "4", "5", " ", "C", "O", "N", "T", "R", " ", "f", "a", "z", "e", "n", "d", "a", " ", "A">>],
     [name |-> <<"s", "e", "m", "f", "a", "z", "e", "n", "d", "a", ".", "t", "x", "t">>, content |-> <<"C", "C", "V", " ", "2", "3", "2", "8", "5", "3", " ", "1", "8", "/", "1", "0", "/", "2", "0", "2", "3", " ", "C", "O", "N", "T", "R">>],
     [name |-> <<"s", "c", "a", "n", ".", "p", "d", "f">>, content |-> <<"P", "R", "O", "P", "R", "I", "E", "T", "A", "R", "I", "O", ":", " ", "O", "D", "E", "T", "T", "E", ".", " ", "C", "P", "F">>],
     [name |-> <<"c", "c", "i", "r", ".", "t", "x", "t">>, content |-> <<"C", "C", "I", "R", " ", "2", "0", "2", "4", " ", "r", "e", "f", "e", "r", "e", "n", "t", "e", " ", "a", " ", "F", "a", "z", "e", "n", "d", "a", " ", "C", "o", "n", "t", "e", "n", "d", "a", "s", " ", "e", " ", "p", "a", "r", "c", "e", "i", "r", "o", " ", "R", "a", "d", "i", "a", "l", " ", "E", "u", "c", "a", "l", "y", "p", "t", ".">>],
     [name |-> <<"l", "e", "i", "a", ".", "m", "d">>, content |-> <<>>]}

\* what the file first found at path reads as
TextOf(path) == (CHOOSE d \in Documents : d.name = path.name).content

\* parse_document(text, context_hint=context) for each text run_ocr can
\* return and each context, computed once
ParsedOf ==
    [t \in {d.content : d \in Documents} \cup {<<>>}, c \in ContextType |->
        parse_document(t, c)]

InitProcess ==
    /\ \E docs \in {d \in SUBSET Documents : Cardinality(d) <= MaxFiles},
          out_exists \in BOOLEAN :
          LET paths == {Path("in", d.name) : d \in docs} \cup {DirPath("in")}
                       \cup (IF out_exists THEN {DirPath("out")} ELSE {})
          IN  fs = [p \in paths |-> p]
    /\ \E context \in ContextType, dry_run \in BOOLEAN :
          /\ config = from_env("in", "out", None, context, dry_run)
          /\ hint = context
    /\ files = <<>>
    /\ text = <<>>
    /\ parsed = ParsedFields
    /\ result = NoResult
    /\ pc = "init"
    /\ results = <<>>

\* process, up to the loop: the files are listed; with none the run exits
Start ==
    /\ pc = "init"
    /\ files' = iter_files(fs, config.input_dir)
    /\ pc' = IF files' = <<>> THEN "exit" ELSE "loop"
    /\ UNCHANGED <<text, hint, parsed, result, fs, results, config>>

\* one iteration of the loop of process
ProcessFile(outcome, io_ok) ==
    /\ pc = "loop"
    /\ files # <<>>
    /\ outcome \in OcrOutcomes(Head(files))
    /\ LET file_path == Head(files)
           ocr_result == run_ocr(fs, file_path, config.output_dir,
                                 TextOf(fs[file_path]), outcome)
       IN  IF ocr_result.raised
           THEN /\ io_ok
                /\ fs' = ocr_result.fs
                /\ results' = Append(results,
                                     RenameResult(file_path, file_path, "ocr_error", "Exception"))
                /\ result' = [kind |-> "process", step |-> "run_ocr",
                              file_path |-> file_path, io_ok |-> io_ok]
                /\ UNCHANGED <<text, parsed>>
           ELSE \E p \in ParsedOf[ocr_result.text, config.context] :
                    LET r == process_parsed(ocr_result.fs, file_path, p, config, io_ok)
                    IN  /\ fs' = r.fs
                        /\ results' = Append(results, r.value)
                        /\ result' = [kind |-> "process", step |-> r.step,
                                      file_path |-> file_path, io_ok |-> io_ok]
                        /\ text' = ocr_result.text
                        /\ parsed' = p
    /\ files' = Tail(files)
    /\ UNCHANGED <<hint, pc, config>>

\* process, after the loop
GenerateReport ==
    /\ pc = "loop"
    /\ files = <<>>
    /\ fs' = generate_report(fs, config.report_path)
    /\ pc' = "done"
    /\ UNCHANGED <<text, hint, parsed, result, files, results, config>>

NextProcess ==
    \/ Start
    \/ \E outcome \in {"text", "pages", "empty", "raise"}, io_ok \in BOOLEAN :
           ProcessFile(outcome, io_ok)
    \/ GenerateReport

SpecProcess == InitProcess /\ [][NextProcess]_vars


\* the confidence recorded for a field, 0 when none is recorded
RecordedConfidence(p, field) ==
    IF field \in DOMAIN p.confidences THEN p.confidences[field] ELSE 0

\* some field of the required-field list of p has confidence below threshold
BelowThreshold(p, threshold) ==
    \E i \in 1..Len(_required_fields(p)) :
        RecordedConfidence(p, _required_fields(p)[i]) < threshold

\* the iteration just made handled a document whose text was obtained
Handled == pc = "loop" /\ result.kind = "process" /\ result.step # "run_ocr"

\* the RenameResult of the iteration just made
LastResult == results[Len(results)]

W_base == <<"2", "0", "2", "3", "1", "0", "1", "8", "_", "C", "C", "V", "_", "2", "3", "2", "8", "5", "3", "_", "C", "O", "N", "T", "R", "_", "C", "O", "N", "T", "E", "N", "D", "A", "S">>

\* the results before the last one that come from a document with the text
\* of the end-to-end test
EarlierContratos ==
    {k \in 1..(Len(results) - 1) : TextOf(results[k].original_path) = ContratoText}

\* C1: with context override 'mercado' and dry_run false, the document with
\* the end-to-end text passes the confidence gate and rule selection (it is
\* not routed to pending) and, unless the move fails, the output directory
\* then holds the document under the base name
\* 20231018_CCV_232853_CONTR_CONTENDAS (the first such document exactly
\* under that name plus its extension).
C1_EndToEndContract ==
    (/\ Handled
     /\ text = ContratoText
     /\ config.context = "mercado"
     /\ ~config.dry_run)
    => /\ result.step = "rename_file"
       /\ LastResult.status # "pending"
       /\ result.io_ok =>
            /\ LastResult.status = "renamed"
            /\ LastResult.new_path.dir = "out"
            /\ exists(fs, LastResult.new_path)
            /\ fs[LastResult.new_path] = result.file_path
            /\ ~exists(fs, result.file_path)
            /\ \E p \in DOMAIN fs :
                   /\ p.dir = "out"
                   /\ p.name = W_base \o <<".", "t", "x", "t">>
                   /\ TextOf(fs[p]) = ContratoText
            /\ EarlierContratos = {} => LastResult.new_path.name = W_base \o <<".", "t", "x", "t">>

\* C1 witness: the file contrato.txt of the end-to-end test was renamed
C1_Witness ==
    /\ Handled
    /\ text = ContratoText
    /\ config.context = "mercado"
    /\ ~config.dry_run
    /\ result.file_path = Path("in", <<"c", "o", "n", "t", "r", "a", "t", "o", ".", "t", "x", "t">>)
    /\ LastResult.status = "renamed"
    /\ LastResult.new_path = Path("out", W_base \o <<".", "t", "x", "t">>)
    /\ exists(fs, Path("out", W_base \o <<".", "t", "x", "t">>))

\* C9: a document reaches rename_file only if every field of its
\* required-field list has confidence >= the configured threshold; if some
\* required field's confidence is below the threshold the iteration ends at
\* the gate with a 'pending' outcome, rename_file is not called and the
\* document stays where it was.
C9_GateBeforeRename ==
    Handled =>
        /\ (result.step = "rename_file" \/ LastResult.status \in {"renamed", "dry_run", "error"})
               => ~BelowThreshold(parsed, config.confidence_threshold)
        /\ BelowThreshold(parsed, config.confidence_threshold)
               => /\ result.step = "_confidence_ok"
                  /\ LastResult.status = "pending"
                  /\ LastResult.original_path = result.file_path
                  /\ exists(fs, result.file_path)
                  /\ fs[result.file_path] = result.file_path
                  /\ \A p \in DOMAIN fs : p.dir = "out" => fs[p] # result.file_path

\* C9 witness: a document whose required fields all reach the threshold, one
\* of them exactly, was renamed, and then a document with a required field
\* below the threshold was made pending
C9_Witness ==
    /\ Handled
    /\ Len(results) = 2
    /\ results[1].status = "renamed"
    /\ TextOf(results[1].original_path) = <<"2", "0", "2", "4", " ", "C", "C", "V", " ", "1", "2", "3", "4", "5", " ", "C", "O", "N", "T", "R", " ", "f", "a", "z", "e", "n", "d", "a", " ", "A">>
    /\ BelowThreshold(parsed, config.confidence_threshold)
    /\ Truthy(parsed.data_assinatura)
    /\ LastResult.status = "pending"

----------------------------------------------------------------------------
(* Specification SpecDryRun: rename_file calls with dry_run=True into the  *)
(* directory "out", which may or may not exist yet, from the filesystems   *)
(* of SpecRename.                                                          *)

\* rename_file(source, new_name, "out", dry_run=True)
DryRunRenameFile(source, new_name) ==
    /\ Len(results) < MaxCalls
    /\ source \in RegularFiles(fs)
    /\ LET r == rename_file(fs, source, new_name, "out", TRUE, TRUE)
       IN  /\ fs' = r.fs
           /\ results' = Append(results, r.value)
           /\ result' = [kind |-> "rename_file", new_name |-> new_name,
                         dry_run |-> TRUE, value |-> r.value]
    /\ pc' = "rename_file"
    /\ UNCHANGED <<text, hint, parsed, files, config>>

NextDryRun ==
    \E source \in DOMAIN fs, new_name \in NewNames : DryRunRenameFile(source, new_name)

SpecDryRun == InitRename /\ [][NextDryRun]_vars

\* the target path a call without dry_run computes from filesystem f
TargetWithoutDryRun(f, source, new_name) ==
    rename_file(f, source, new_name, "out", FALSE, TRUE).value.new_path

\* C11: a dry-run call of rename_file reports the status 'dry_run' and the
\* target path a call without dry_run computes from the same filesystem, and
\* changes nothing: the files and directories existing after the call are
\* those existing before it, and the source stays in place.
C11_DryRunChangesNothing ==
    [][Len(results') = Len(results) + 1 /\ result'.dry_run =>
        LET r == result'.value
        IN  /\ r.status = "dry_run"
            /\ r.new_path = TargetWithoutDryRun(fs, r.original_path, result'.new_name)
            /\ exists(fs', r.original_path)
            /\ DOMAIN fs' = DOMAIN fs
            /\ fs' = fs]_vars

\* the statuses process records
Statuses == {"renamed", "dry_run", "pending", "ocr_error", "error"}

\* whether a file name has one of the supported extensions
Supported(name) == \E e \in SUPPORTED_EXTENSIONS : Extension(name) = <<".">> \o e

\* the files of the input directory with a supported extension
Eligible(f) == {p \in RegularFiles(f) : p.dir = "in" /\ Supported(p.name)}

\* the eligible files the input directory held when the run began: no file
\* is deleted during a run, so they are the files of f that began there
EligibleAtStart(f) ==
    {f[p] : p \in {q \in RegularFiles(f) : f[q].dir = "in" /\ Supported(f[q].name)}}

\* the files handled so far, in order, then the files still to handle
HandledThenPending == [k \in 1..Len(results) |-> results[k].original_path] \o files

\* every eligible file is, exactly once, either the origin of a result or
\* still in the list
ExactlyOncePerFile ==
    pc \in {"loop", "done"} =>
        /\ {HandledThenPending[k] : k \in 1..Len(HandledThenPending)} = EligibleAtStart(fs)
        /\ Len(HandledThenPending) = Cardinality(EligibleAtStart(fs))
        /\ \A k \in 1..Len(results) : results[k].status \in Statuses

\* the listing takes the eligible files; one iteration appends exactly one
\* RenameResult, for the file at the head of the list, and goes on with the
\* rest of the list; with the list empty the report is generated
LoopGoesOn ==
    [][/\ pc = "init" =>
            /\ {files'[k] : k \in 1..Len(files')} = Eligible(fs)
            /\ (pc' = "loop") = (files' # <<>>)
       /\ pc = "loop" /\ files # <<>> =>
            /\ pc' = "loop"
            /\ files' = Tail(files)
            /\ results' = Append(results, results'[Len(results')])
            /\ results'[Len(results')].original_path = Head(files)
       /\ pc = "loop" /\ files = <<>> =>
            /\ pc' = "done"
            /\ results' = results
            /\ exists(fs', config.report_path)]_vars

\* the outcome of the iteration just made, by the way it ended
StructuredOutcome ==
    pc = "loop" /\ result.kind = "process" =>
        /\ result.step = "run_ocr" =>
             /\ LastResult.status = "ocr_error"
             /\ LastResult.new_path = result.file_path
        /\ result.step \in {"_confidence_ok", "build_filename"} =>
             LastResult.status = "pending"
        /\ result.step = "rename_file" /\ ~config.dry_run /\ ~result.io_ok =>
             /\ LastResult.status = "error"
             /\ LastResult.original_path = result.file_path
             /\ LastResult.new_path.dir = config.output_dir
             /\ LastResult.new_path.name # <<>>
             /\ LastResult.message # ""
             /\ exists(fs, result.file_path)

----------------------------------------------------------------------------
(* Specification SpecNormalize: normalize_text applied to a string, then   *)
(* to its own result.                                                      *)

\* the length of the strings normalized
MaxNormalizeLen == 4

\* letters of both cases, whitespace, a precomposed accented letter, a
\* combining mark and a character that decomposes into whitespace
NormalizeChars == {"a", "B", " ", "\t", "U+00FA", "U+0301", "U+00A8"}

NormalizeTexts == UNION {[1..n -> NormalizeChars] : n \in 0..MaxNormalizeLen}

InitNormalize ==
    /\ text \in NormalizeTexts
    /\ hint = "auto"
    /\ parsed = ParsedFields
    /\ result = NoResult
    /\ pc = "init"
    /\ fs = <<>>
    /\ files = <<>>
    /\ results = <<>>
    /\ config = from_env("in", "out", None, "auto", FALSE)

\* text = normalize_text(text), at most twice
NormalizeText ==
    /\ IF result.kind = "none" THEN TRUE ELSE result.calls < 2
    /\ text' = normalize_text(text)
    /\ result' = [kind |-> "normalize_text",
                  input |-> IF result.kind = "none" THEN text ELSE result.input,
                  argument |-> text,
                  calls |-> IF result.kind = "none" THEN 1 ELSE result.calls + 1]
    /\ pc' = "normalize_text"
    /\ UNCHANGED <<hint, parsed, fs, files, results, config>>

NextNormalize == NormalizeText

SpecNormalize == InitNormalize /\ [][NextNormalize]_vars

\* the characters of s other than whitespace and combining marks, each
\* accented letter as its base letter
BaseCharacters(s) ==
    SelectSeq(Flatten([i \in 1..Len(s) |-> NFKD(s[i])]),
              LAMBDA c : ~IsSpace(c) /\ ~combining(c))

\* C13: normalize_text applied to its own result returns it unchanged; its
\* result has no combining mark, no leading or trailing whitespace and no
\* two whitespace characters in a row, and its characters other than
\* whitespace are those of the input, in the case they had.
C13_NormalizeIdempotent ==
    result.kind = "normalize_text" =>
        /\ result.calls >= 2 => text = result.argument
        /\ \A i \in 1..Len(text) : ~combining(text[i])
        /\ text # <<>> => ~IsSpace(text[1]) /\ ~IsSpace(text[Len(text)])
        /\ \A i \in 1..(Len(text) - 1) : ~(IsSpace(text[i]) /\ IsSpace(text[i + 1]))
        /\ SelectSeq(text, LAMBDA c : ~IsSpace(c)) = BaseCharacters(result.input)

\* C13 witness: a string with an accented letter and a run of two whitespace
\* characters was normalized, and the result normalized again
C13_Witness ==
    /\ result.kind = "normalize_text"
    /\ result.calls = 2
    /\ result.input = <<"U+00FA", " ", "\t", "B">>
    /\ result.argument = <<"u", " ", "B">>
    /\ text = <<"u", " ", "B">>

----------------------------------------------------------------------------
(* Specifications of parse_document over other sets of tokens.             *)

\* the texts made of up to MaxParseTokens different tokens in any order
TextsOf(tokens) ==
    UNION {{join(<<" ">>, ts) :
               ts \in {f \in [1..n -> tokens] :
                          \A i, j \in 1..n : i # j => f[i] # f[j]}} :
           n \in 0..MaxParseTokens}

\* the state before parse_document is called on one of texts
InitTexts(texts) ==
    /\ text \in texts
    /\ hint = "auto"
    /\ parsed = ParsedFields
    /\ result = NoResult
    /\ pc = "init"
    /\ fs = {}
    /\ files = <<>>
    /\ results = <<>>
    /\ config = from_env("in", "out", None, "auto", FALSE)

\* identity-document codes as words, an owner anchor followed by a name, a
\* 'CPF DE' anchor in mixed case, a word that contains the code RG, and a
\* further name
PersonTokens == {
    <<"C", "P", "F">>,
    <<"R", "G">>,
    <<"P", "R", "O", "P", "R", "I", "E", "T", "A", "R", "I", "O", ":", " ", "O", "D", "E", "T", "T", "E">>,
    <<"C", "P", "F", " ", "d", "e", " ", "A", "n", "a">>,
    <<"C", "A", "R", "G", "A">>,
    <<"L", "e", "i", "t", "e">>}

InitPerson == InitTexts(TextsOf(PersonTokens))

SpecPerson == InitPerson /\ [][NextParse]_vars

\* the identity-document codes that occur in s as whole words
IdentityWords(s) == {d \in DOCUMENTO_PF_PJ : HasWord(s, d)}

\* C14: documento_pf_pj is populated, with confidence 0.70, whenever the text
\* contains a code of the identity-document vocabulary as a token, whether or
\* not an owner name was found; and it is populated only with a code that
\* occurs as a token, not as a part of a longer word.
C14_IdentityTypeFromAnyToken ==
    pc = "parse_document" =>
        /\ IdentityWords(TextClean) # {} =>
              /\ Truthy(parsed.documento_pf_pj)
              /\ get_confidence(parsed, "documento_pf_pj") = 70
        /\ Truthy(parsed.documento_pf_pj) =>
              parsed.documento_pf_pj[1] \in IdentityWords(TextClean)

\* fund keywords and market keywords in mixed case, some followed by a name,
\* a word that contains the keyword SPE, and a word with no keyword
ContextTokens == {
    <<"f", "u", "n", "d", "o", " ", "M", "a", "n", "u", "l", "i", "f", "e">>,
    <<"F", "I", "P">>,
    <<"C", "o", "t", "i", "s", "t", "a">>,
    <<"F", "a", "z", "e", "n", "d", "a", " ", "C", "o", "n", "t", "e", "n", "d", "a", "s">>,
    <<"p", "a", "r", "c", "e", "i", "r", "o", " ", "R", "a", "d", "i", "a", "l">>,
    <<"p", "r", "o", "p", "r", "i", "e", "d", "a", "d", "e">>,
    <<"e", "s", "p", "e", "c", "i", "a", "l">>,
    <<"C", "C", "V">>}

InitContext == InitTexts(TextsOf(ContextTokens))

SpecContext == InitContext /\ [][NextParse]_vars

\* s contains the word w somewhere
HasSubstring(s, w) ==
    \E i \in 1..Len(s) : i + Len(w) - 1 <= Len(s) /\ SubSeq(s, i, i + Len(w) - 1) = w

\* the classification of a text by its keywords
ClassifiedAs(s) ==
    IF \E k \in {<<"F", "U", "N", "D", "O">>, <<"F", "I", "P">>, <<"F", "I", "A", "G", "R", "O">>,
                 <<"S", "P", "E">>, <<"C", "O", "T", "I", "S", "T", "A">>} : HasSubstring(s, k)
    THEN <<"f", "u", "n", "d", "o", "s">>
    ELSE IF \E k \in {<<"P", "A", "R", "C", "E", "I", "R", "O">>, <<"F", "A", "Z", "E", "N", "D", "A">>,
                      <<"P", "R", "O", "P", "R", "I", "E", "D", "A", "D", "E">>} : HasSubstring(s, k)
    THEN <<"m", "e", "r", "c", "a", "d", "o">>
    ELSE <<"a", "u", "t", "o">>

\* C15: with a context hint other than 'auto' the context is the hint with
\* confidence 1.0 whatever the text; otherwise it is 'fundos' if the
\* uppercased text contains a fund keyword (also when market keywords are
\* present), else 'mercado' if it contains a market keyword, else 'auto',
\* with confidence 0.6.
C15_ContextClassification ==
    pc = "parse_document" =>
        /\ "contexto" \in DOMAIN parsed.confidences
        /\ hint = "fundos" =>
              parsed.contexto = Str(<<"f", "u", "n", "d", "o", "s">>) /\ parsed.confidences["contexto"] = 100
        /\ hint = "mercado" =>
              parsed.contexto = Str(<<"m", "e", "r", "c", "a", "d", "o">>) /\ parsed.confidences["contexto"] = 100
        /\ hint = "auto" =>
              parsed.contexto = Str(ClassifiedAs(TextClean)) /\ parsed.confidences["contexto"] = 60

\* C15 witness: without a hint, a text with a market keyword followed by a
\* fund keyword was classified 'fundos' with confidence 0.6
C15_Witness ==
    /\ pc = "parse_document"
    /\ hint = "auto"
    /\ text = <<"F", "a", "z", "e", "n", "d", "a", " ", "C", "o", "n", "t", "e", "n", "d", "a", "s", " ", "C", "o", "t", "i", "s", "t", "a">>
    /\ parsed.contexto = Str(<<"f", "u", "n", "d", "o", "s">>)
    /\ parsed.confidences["contexto"] = 60

\* two contract-type codes, two environmental document names, two titles of
\* equal length and a longer title
VocabularyTokens == {
    <<"C", "C", "V">>,
    <<"C", "C", "O">>,
    <<"M", "A", "T">>,
    <<"I", "T", "R">>,
    <<"A", "D", "T">>,
    <<"T", "I", "P">>,
    <<"C", "O", "N", "T", "R">>}

InitVocabulary == InitTexts(TextsOf(VocabularyTokens))

\* parse_document(text, context_hint=h) in one run of the program and again
\* in another: parsed holds the first result, result the second
ParseDocumentTwice(h) ==
    /\ pc = "init"
    /\ hint' = h
    /\ parsed' \in parse_document(text, h)
    /\ \E second \in parse_document(text, h) :
           result' = [kind |-> "parse_document", value |-> second]
    /\ pc' = "parse_document_twice"
    /\ UNCHANGED <<text, fs, files, results, config>>

NextVocabulary == \E h \in ContextHints : ParseDocumentTwice(h)

SpecVocabulary == InitVocabulary /\ [][NextVocabulary]_vars

\* C16: the contract-type, the document name and the title kept by
\* parse_document are determined by the text: two runs of parse_document on
\* the same text and context hint give the same FieldSet and hence the same
\* filename, also for a text with two contract-type codes, two environmental
\* document names or two titles of equal length.
C16_ExtractionDeterministic ==
    pc = "parse_document_twice" =>
        /\ parsed = result.value
        /\ build_filename(parsed) = build_filename(result.value)

\* an environmental document name, a bare year, a date in a year 20xx, a
\* date in another century followed by a contract number, a year that is part
\* of a longer word, the codes CPA and CPR, a property and an owner with an
\* identity document
DocumentTokens == {
    <<"M", "A", "T">>,
    <<"2", "0", "2", "4">>,
    <<"1", "8", "/", "1", "0", "/", "2", "0", "2", "3">>,
    <<"3", "1", "/", "1", "2", "/", "1", "9", "9", "9", " ", "n", ".", " ", "2", "3", "2", "8", "5", "3">>,
    <<"X", "2", "0", "2", "5">>,
    <<"C", "P", "A", " ", "(", "C", "P", "R", ")">>,
    <<"F", "a", "z", "e", "n", "d", "a", " ", "B", "o", "a">>,
    <<"P", "R", "O", "P", "R", "I", "E", "T", "A", "R", "I", "O", ":", " ", "A", "N", "A", " ", "C", "P", "F">>}

InitDocument == InitTexts(TextsOf(DocumentTokens))

SpecDocument == InitDocument /\ [][NextParse]_vars

\* the set_value calls that wrote field f
WritesTo(p, f) == {k \in 1..Len(p.writes) : p.writes[k][1] = f}

\* C17: after parse_document every field with no value has no entry in
\* confidences (confidence 0.0), every field with a value has a confidence
\* between 0.6 and 1.0, and every field was written at most once; the
\* confidence of a field is the one it was written with, except that of
\* tipo_contrato, which may have been raised to 0.90 when the type is CPA and
\* the text contains CPR.
C17_FieldSetInvariant ==
    pc = "parse_document" =>
        \A f \in Fields :
            /\ Cardinality(WritesTo(parsed, f)) <= 1
            /\ parsed[f] = None =>
                  /\ f \notin DOMAIN parsed.confidences
                  /\ get_confidence(parsed, f) = 0
                  /\ WritesTo(parsed, f) = {}
            /\ parsed[f] # None =>
                  /\ parsed[f][1] # <<>>
                  /\ f \in DOMAIN parsed.confidences
                  /\ parsed.confidences[f] >= 60
                  /\ parsed.confidences[f] <= 100
                  /\ \E k \in WritesTo(parsed, f) :
                         \/ parsed.confidences[f] = parsed.writes[k][2]
                         \/ /\ f = "tipo_contrato"
                            /\ parsed.tipo_contrato = Str(W_CPA)
                            /\ HasSubstring(TextClean, W_CPR)
                            /\ parsed.writes[k][2] < 90
                            /\ parsed.confidences[f] = 90

\* C17 witness: a parse that populated some fields and left others empty,
\* and raised the confidence of the contract type after writing it
C17_Witness ==
    /\ pc = "parse_document"
    /\ parsed.tipo_contrato = Str(W_CPA)
    /\ parsed.confidences["tipo_contrato"] = 90
    /\ \E k \in WritesTo(parsed, "tipo_contrato") : parsed.writes[k][2] = 85
    /\ parsed.nome_documento # None
    /\ parsed.ano_emissao # None
    /\ parsed.fundo = None
    /\ parsed.numero_contrato = None

\* the indices of s where a standalone 4-digit token beginning with '20'
\* starts
StandaloneYears(s) == {i \in 1..Len(s) : IsYearAt(s, i)}

\* C18: when nome_documento is populated, ano_emissao is populated, with
\* confidence 0.70, iff the text contains a standalone 4-digit token
\* beginning with '20', and it is then the first such token (the year of a
\* full DD/MM/YYYY date included); when nome_documento is not populated
\* ano_emissao stays empty.
C18_IssueYear ==
    pc = "parse_document" =>
        LET s == TextClean
            y == Min(StandaloneYears(s))
        IN  IF parsed.nome_documento # None /\ StandaloneYears(s) # {}
            THEN /\ parsed.ano_emissao = Str(<<s[y], s[y + 1], s[y + 2], s[y + 3]>>)
                 /\ "ano_emissao" \in DOMAIN parsed.confidences
                 /\ parsed.confidences["ano_emissao"] = 70
            ELSE /\ parsed.ano_emissao = None
                 /\ "ano_emissao" \notin DOMAIN parsed.confidences

\* C18 witness: a document name, then a bare year, then a full date: the
\* date extractor returned the date and the issue year is the bare year
C18_Witness ==
    /\ pc = "parse_document"
    /\ text = <<"M", "A", "T", " ", "2", "0", "2", "4", " ", "1", "8", "/", "1", "0", "/", "2", "0", "2", "3">>
    /\ parsed.nome_documento = Str(<<"M", "A", "T">>)
    /\ parsed.data_assinatura = Str(<<"2", "0", "2", "3", "1", "0", "1", "8">>)
    /\ parsed.ano_emissao = Str(<<"2", "0", "2", "4">>)
    /\ parsed.confidences["ano_emissao"] = 70

----------------------------------------------------------------------------
(* The gate's required-field list against build_filename, under SpecRules  *)

\* C19: for every FieldSet the list returned by _required_fields is the
\* ordered list of fields that the template chosen by build_filename checks
\* and joins: build_filename raises for the first empty field of that list,
\* and with none empty returns the '_'-join of the values of that list in
\* its order (context None, '', 'auto', 'mercado' or 'fundos', fields None,
\* '' or populated).
C19_GateListIsTemplateList ==
    pc = "build_filename" =>
        LET req == _required_fields(parsed)
            missing == EmptyAt(parsed, req)
        IN  IF missing = {}
            THEN result = [kind |-> "return", value |-> JoinedTokens(parsed, req)]
            ELSE result = [kind |-> "RuleError", field |-> req[Min(missing)]]

\* C19 witness: no context, an empty-string document name, fund-name and
\* spe-name populated: both select the fund contract template, and the name
\* was built
C19_Witness ==
    /\ pc = "build_filename"
    /\ parsed.contexto = None
    /\ parsed.nome_documento = Str(<<>>)
    /\ NonEmpty(parsed, "fundo")
    /\ NonEmpty(parsed, "spe")
    /\ NonEmpty(parsed, "fazenda")
    /\ _required_fields(parsed) = <<"data_assinatura", "tipo_contrato", "numero_contrato",
                                    "titulo_documento", "fundo", "spe">>
    /\ result.kind = "return"
    /\ result.value = JoinedTokens(parsed, <<"data_assinatura", "tipo_contrato", "numero_contrato",
                                            "titulo_documento", "fundo", "spe">>)

----------------------------------------------------------------------------
(* The gate and the rules in one run of process, under SpecProcess         *)

\* the fields of the gate's required-field list that parse_document left
\* without a value
MissingRequired(p) ==
    {i \in 1..Len(_required_fields(p)) : ~NonEmpty(p, _required_fields(p)[i])}

\* C20: process runs with the threshold 0.7, and with it the gate passes iff
\* every required field of the chosen branch is populated; build_filename
\* never raises RuleError inside process (no iteration ends in the RuleError
\* branch), and every document with a missing required field is recorded as
\* pending with the message 'Confiança insuficiente'.
C20_GateSubsumesRuleError ==
    Handled =>
        /\ config.confidence_threshold = 70
        /\ (result.step # "_confidence_ok") <=> (MissingRequired(parsed) = {})
        /\ result.step # "build_filename"
        /\ build_filename(parsed).kind = "RuleError" => result.step = "_confidence_ok"
        /\ MissingRequired(parsed) # {} =>
              /\ LastResult.status = "pending"
              /\ LastResult.message = "Confiança insuficiente"

\* C20 witness: a document whose fields are all populated but the property
\* name was left at the gate with the message of the gate, although
\* build_filename on its fields raises the RuleError naming 'fazenda'
C20_Witness ==
    /\ Handled
    /\ result.step = "_confidence_ok"
    /\ MissingRequired(parsed) = {5}
    /\ _required_fields(parsed)[5] = "fazenda"
    /\ build_filename(parsed) = [kind |-> "RuleError", field |-> "fazenda"]
    /\ LastResult.status = "pending"
    /\ LastResult.message = "Confiança insuficiente"

----------------------------------------------------------------------------
(* parse_document: the market pass and the fund pass over one text.        *)

\* the market entity fields and the fund entity fields of a FieldSet
MarketPopulated(p) == Truthy(p.fazenda) \/ Truthy(p.parceiro)
FundPopulated(p) == Truthy(p.fundo) \/ Truthy(p.spe)

\* C21: after parse_document on any text and hint, the market entity fields
\* (fazenda, parceiro) and the fund entity fields (fundo, spe) are never both
\* populated; a resolved context 'mercado' leaves fundo and spe empty and a
\* resolved context 'fundos' leaves fazenda and parceiro empty; and the
\* resolved context is 'auto', where both passes run, only for a text in
\* which none of FAZENDA, PARCEIRO, FUNDO, SPE occurs, so that all four
\* entity fields are then empty.
C21_EntityPassesExclusive ==
    pc = "parse_document" =>
        /\ ~(MarketPopulated(parsed) /\ FundPopulated(parsed))
        /\ parsed.contexto = Str(<<"m", "e", "r", "c", "a", "d", "o">>) => ~FundPopulated(parsed)
        /\ parsed.contexto = Str(<<"f", "u", "n", "d", "o", "s">>) => ~MarketPopulated(parsed)
        /\ parsed.contexto = Str(<<"a", "u", "t", "o">>) =>
              /\ hint = "auto"
              /\ \A k \in {W_FAZENDA, W_PARCEIRO, W_FUNDO, W_SPE} : ~HasSubstring(TextClean, k)
              /\ ~MarketPopulated(parsed)
              /\ ~FundPopulated(parsed)

\* C21 witness: without a hint, a text that names both a farm and a fund was
\* parsed: the context is 'fundos', the fund is populated and the farm is not
C21_Witness ==
    /\ pc = "parse_document"
    /\ hint = "auto"
    /\ text = <<"F", "a", "z", "e", "n", "d", "a", " ", "C", "o", "n", "t", "e", "n", "d", "a", "s", " ", "f", "u", "n", "d", "o", " ", "M", "a", "n", "u", "l", "i", "f", "e">>
    /\ parsed.contexto = Str(<<"f", "u", "n", "d", "o", "s">>)
    /\ parsed.fundo = Str(<<"M", "A", "N", "U", "L", "I", "F", "E">>)
    /\ parsed.fazenda = None
    /\ parsed.parceiro = None

====
